---- MODULE Spec2Model ----
(***************************************************************************)
(* Negotiation engine of the mess-coupon bot: ConversationManager          *)
(* (conversation/manager), the confirmation gateway of MessCouponBot       *)
(* (src/index.ts) and the seller-message analysis (src/llm/messageParser). *)
(*                                                                         *)
(* Handlers are modelled as atomic steps, except where the code suspends   *)
(* on something another event resolves: the two checkpoint futures and the *)
(* self-chat "ok"/"no" handler, which awaits a send between reading the    *)
(* resolver and clearing the registry.                                     *)
(***************************************************************************)
EXTENDS Integers, Sequences, FiniteSets

\* ---------------------------------------------------------------- bounds
MaxConvs == 3       \* conversations ever created
MaxFuts == 4        \* checkpoint futures ever registered
MaxTimers == 2      \* pending follow-up timeouts per conversation
MaxMsgIds == 3      \* group messages ever fetched or received
MaxInflight == 1    \* self-chat handlers suspended at their await
MaxImg == 1         \* distinct images a seller sends
Sat == 2            \* saturation of the per-conversation effect tallies

\* ------------------------------------------------------ program constants
FIXED_PRICE == 70
MAX_FOLLOW_UPS == 8
CancelThreshold == 5      \* confidence > 0.5, in tenths
RefundThreshold == 5      \* confidence > 0.5, in tenths

Sellers == {"s1", "s2"}
TestAccounts == {"s2"}
CouponTypes == {"lunch", "dinner"}
MessNames == {"SGR", "SRR"}
NoMess == "none"

\* getMessPreference: the operator's accepted messes per coupon type
\* ({} stands for null / empty list = any mess)
MessPreference(t) == IF t = "lunch" THEN {"SGR"} ELSE {}

Terminal == {"COMPLETED", "FAILED"}
States == {"INITIATING_CONTACT", "AWAITING_MESS_INFO", "AWAITING_PAYMENT_INFO",
           "PAYMENT_PENDING", "AWAITING_COUPON", "AWAITING_REFUND",
           "AWAITING_REFUND_SCREENSHOT", "COMPLETED", "FAILED"}

VARIABLES
  convs,      \* conversations map: id (index) -> Conversation
  cur,        \* currentConversationId (0 = null)
  early,      \* earlyCouponImages: id -> image (0 = no entry)
  recv,       \* receivedImagesPerConversation: id -> last stored image (0 = empty)
  cancelSt,   \* sellerCancelFollowUpState: id -> 0..2 (0 = no entry)
  chatImg,    \* newest image in the seller's chat since the conversation began
  futs,       \* checkpoint futures in registration order
  userRes,    \* userConfirmationResolvers: id -> future (0 = no entry)
  payRes,     \* paymentConfirmationResolvers: id -> future (0 = no entry)
  pendConf,   \* pendingConfirmationConvId (0 = null)
  pendPay,    \* pendingPaymentConvId (0 = null)
  timers,     \* pending checkAndFollowUp timeouts per conversation
  inflight,   \* self-chat "ok"/"no" handlers suspended at their await
  active,     \* activeSellerIds
  tally,      \* per conversation: effects emitted so far (saturating;
              \* alert: since it last entered AWAITING_COUPON)
  happy,      \* per conversation: stage of the happy-path scenario
  boot,       \* resumeIncompleteConversations: the conversations its loop has
              \* still to visit, each with the outcome of the inactivity test
  bootFut,    \* the checkpoint future that loop is suspended on (0 = none)
  out,        \* effects and return value of the last operation
  scanning,   \* checkAndFollowUp callbacks suspended at fetchChatMedia, per
              \* conversation
  processedMessageIds,  \* GroupMonitor.processedMessageIds
  detecting,  \* processMessage calls suspended at detectSellMessage, per
              \* group message id
  seen,       \* per group message id: detections started, onSellMessage
              \* callbacks made, and skips as already processed (saturating)
  messages    \* Conversation.messages of one conversation, oldest first

vars == <<convs, cur, early, recv, cancelSt, chatImg, futs, userRes, payRes,
          pendConf, pendPay, timers, inflight, active, tally, happy, boot,
          bootFut, out, scanning, processedMessageIds, detecting, seen,
          messages>>

Ids == 1..MaxConvs
MsgIds == 1..MaxMsgIds
ZeroMap == [i \in Ids |-> 0]
NoTally == [succ |-> 0, fail |-> 0, purch |-> 0, fsink |-> 0, fwd |-> 0,
            alert |-> 0, req |-> 0, held |-> 0]

Min(a, b) == IF a < b THEN a ELSE b
Inc(n) == Min(n + 1, Sat)

\* ------------------------------------------------------------ state record
\* Handlers are operators from a state record to a state record; `out' is
\* the sequence of effects the running handler has emitted (its return value
\* included), `ovf' is set when it would exceed a bound of the model.
\* failAt is the number of the send to a seller at which the transport throws
\* in this operation (0 = at none), sent counts the sends made, and once it
\* has thrown snap is the state the operation was left in.
Here ==
  [convs |-> convs, cur |-> cur, early |-> early, recv |-> recv,
   cancelSt |-> cancelSt, chatImg |-> chatImg, futs |-> futs,
   userRes |-> userRes, payRes |-> payRes, pendConf |-> pendConf,
   pendPay |-> pendPay, timers |-> timers, inflight |-> inflight,
   active |-> active, tally |-> tally, happy |-> happy, boot |-> boot,
   bootFut |-> bootFut, scanning |-> scanning,
   processedMessageIds |-> processedMessageIds, detecting |-> detecting,
   seen |-> seen,
   out |-> <<>>, res |-> "none", ovf |-> FALSE,
   failAt |-> 0, sent |-> 0, threw |-> FALSE, snap |-> <<>>]

Return(st, v) == [st EXCEPT !.res = v, !.out = Append(@, <<"return", 0, v, 0>>)]

\* what an operation leaves: its last state, or the state it was in when the
\* transport threw (the exception ends the handler and is logged by the
\* caller, part_005:219-225)
Left(st) == IF st.threw THEN st.snap ELSE st

\* the operation has renewed the updatedAt of conversation c, which the
\* startup loop has still to visit: it has changed it or has sent or
\* recorded something for it
Renewed(s, c) ==
  \/ s.convs[c] # convs[c]
  \/ \E k \in 1..Len(s.out) : s.out[k][2] = c

Commit(st) ==
  LET s == Left(st)
  IN /\ ~s.ovf
     /\ convs' = s.convs
     /\ cur' = s.cur
     /\ early' = s.early
     /\ recv' = s.recv
     /\ cancelSt' = s.cancelSt
     /\ chatImg' = s.chatImg
     /\ futs' = s.futs
     /\ userRes' = s.userRes
     /\ payRes' = s.payRes
     /\ pendConf' = s.pendConf
     /\ pendPay' = s.pendPay
     /\ timers' = s.timers
     /\ inflight' = s.inflight
     /\ active' = s.active
     /\ tally' = s.tally
     /\ happy' = s.happy
     /\ boot' = [k \in 1..Len(s.boot) |->
                   [s.boot[k] EXCEPT !.stale = @ /\ ~Renewed(s, s.boot[k].id)]]
     /\ bootFut' = s.bootFut
     /\ out' = s.out
     /\ scanning' = s.scanning
     /\ processedMessageIds' = s.processedMessageIds
     /\ detecting' = s.detecting
     /\ seen' = s.seen
     /\ UNCHANGED messages

Emit(st, e) == [st EXCEPT !.out = Append(@, e)]
Bump(st, c, f) == [st EXCEPT !.tally[c][f] = Inc(@)]
SetConv(st, c, f, v) == [st EXCEPT !.convs[c][f] = v]
IsTerminal(st, c) == st.convs[c].state \in Terminal

\* an effect is <<kind, conversation (0 = none), detail, n>>, n the image
\* of a forward or the id a manual override was called with (0 otherwise)
\* sendMessage to the seller; sendToSeller also appends to the history
\* the transport (part_005:328-340) sends or throws
Transport(st, e) ==
  IF ~st.threw /\ st.failAt = st.sent + 1
  THEN [st EXCEPT !.threw = TRUE,
                  !.snap = Emit(st, <<"sendFailed", e[2], e[3], 0>>)]
  ELSE Emit([st EXCEPT !.sent = @ + 1], e)

sendMessage(st, c, kind) == Transport(st, <<"sendMessage", c, kind, 0>>)
sendToSeller(st, c, kind) == Transport(st, <<"sendToSeller", c, kind, 0>>)
\* sendToSelf: message to the operator; a failed send is logged and swallowed
sendToSelf(st, kind) == Emit(st, <<"sendToSelf", 0, kind, 0>>)

\* ------------------------------------------------------------- finalizers
failConversation(st, c, reason) ==
  LET s1 == [st EXCEPT !.convs[c].state = "FAILED",
                       !.convs[c].failureReason = reason,
                       !.convs[c].completedAt = TRUE,
                       !.early[c] = 0,
                       !.recv[c] = 0,
                       !.cur = IF st.cur = c THEN 0 ELSE st.cur]
      s2 == Bump(Emit(s1, <<"recordFailedDeal", c, "", 0>>), c, "fail")
      s3 == sendToSelf(s2, "summary")
  IN  Bump(Emit(s3, <<"onConversationFailed", c, "", 0>>), c, "fsink")

\* completeConversation without the call of onCouponPurchased
completeConversationUnreported(st, c, img) ==
  LET s1 == [st EXCEPT !.convs[c].state = "COMPLETED",
                       !.convs[c].completedAt = TRUE,
                       !.early[c] = 0,
                       !.recv[c] = 0,
                       !.cur = 0]
      s2 == sendToSeller(s1, c, "thanks")
      s3 == Bump(Emit(s2, <<"recordSuccessfulDeal", c, "", 0>>), c, "succ")
  IN  Bump(Emit(s3, <<"forward", c, "", img>>), c, "fwd")

completeConversation(st, c, img) ==
  LET s1 == [st EXCEPT !.convs[c].state = "COMPLETED",
                       !.convs[c].completedAt = TRUE,
                       !.early[c] = 0,
                       !.recv[c] = 0,
                       !.cur = 0]
      s2 == sendToSeller(s1, c, "thanks")
      s3 == Bump(Emit(s2, <<"recordSuccessfulDeal", c, "", 0>>), c, "succ")
      s4 == Bump(Emit(s3, <<"forward", c, "", img>>), c, "fwd")
  IN  Bump(Emit(s4, <<"onCouponPurchased", c, "", 0>>), c, "purch")

\* ------------------------------------------------------ checkpoint gateway
NewFuture(c, kind) == [conv |-> c, kind |-> kind, st |-> "pending", fired |-> FALSE]

\* index.ts waitForUserConfirmation: registers the resolver under the
\* conversation id and makes it the pending confirmation
waitForUserConfirmation(st, c) ==
  IF Len(st.futs) >= MaxFuts THEN [st EXCEPT !.ovf = TRUE]
  ELSE [st EXCEPT !.futs = Append(@, NewFuture(c, "user")),
                  !.pendConf = c,
                  !.userRes[c] = Len(st.futs) + 1]

\* index.ts waitForPaymentConfirmation
waitForPaymentConfirmation(st, c) ==
  IF Len(st.futs) >= MaxFuts THEN [st EXCEPT !.ovf = TRUE]
  ELSE [st EXCEPT !.futs = Append(@, NewFuture(c, "pay")),
                  !.pendPay = c,
                  !.payRes[c] = Len(st.futs) + 1]

\* scanChatForCouponImage: the newest stored image, else the newest image
\* fetchChatMedia returns (fetch = FALSE: the fetch fails or finds nothing)
scanChatForCouponImage(st, c, fetch) ==
  IF st.recv[c] # 0 THEN st.recv[c]
  ELSE IF fetch THEN st.chatImg[c] ELSE 0

startCouponFollowUpTimer(st, c) ==
  IF st.timers[c] >= MaxTimers THEN [st EXCEPT !.ovf = TRUE]
  ELSE [st EXCEPT !.timers[c] = @ + 1]

handlePaymentFailure(st, c, reason) ==
  LET s1 == sendToSeller(st, c, "cancel")
      s2 == sendToSelf(s1, "dealCancelled")
      s3 == [s2 EXCEPT !.cur = 0]
  IN  failConversation(s3, c, reason)

\* requestUserConfirmationAndPay after `await waitForPaymentConfirmation'
AfterPaymentConfirmation(st, c, paymentDone, fetch) ==
  IF paymentDone /\ st.convs[c].upi
  THEN LET e == st.early[c]
           s1 == IF e # 0 THEN [st EXCEPT !.early[c] = 0] ELSE st
           img == IF e # 0 THEN e ELSE scanChatForCouponImage(s1, c, fetch)
       IN IF img # 0
          THEN LET s2 == sendToSeller(s1, c, "paymentDoneThanks")
                   s3 == [s2 EXCEPT !.convs[c].state = "COMPLETED",
                                    !.convs[c].completedAt = TRUE,
                                    !.cancelSt[c] = 0,
                                    !.cur = 0]
                   s4 == Bump(Emit(s3, <<"recordSuccessfulDeal", c, "", 0>>), c, "succ")
                   s5 == Bump(Emit(s4, <<"forward", c, "", img>>), c, "fwd")
               IN Bump(Emit(s5, <<"onCouponPurchased", c, "", 0>>), c, "purch")
          ELSE LET s2 == Bump(sendToSeller(s1, c, "couponRequest"), c, "req")
                   s3 == [s2 EXCEPT !.convs[c].state = "AWAITING_COUPON",
                                    !.convs[c].fu = 0,
                                    !.tally[c].alert = 0]
               IN startCouponFollowUpTimer(s3, c)
  ELSE handlePaymentFailure(st, c, "Payment not completed")

\* requestUserConfirmationAndPay after `await waitForUserConfirmation'
\* AfterUserConfirmation going on to the payment whatever the answer
AfterUserConfirmationAnyway(st, c, confirmed) ==
  waitForPaymentConfirmation(st, c)

AfterUserConfirmation(st, c, confirmed) ==
  IF confirmed THEN waitForPaymentConfirmation(st, c)
  ELSE handlePaymentFailure(st, c, "User declined")

\* requestUserConfirmationAndPay up to its first suspension
requestUserConfirmationAndPay(st, c) ==
  waitForUserConfirmation(sendToSelf(st, "confirmRequest"), c)

\* ---------------------------------------------------------------- offers
NonTerminal(st) == {i \in 1..Len(st.convs) : st.convs[i].state \notin Terminal}
isTestAccount(s) == s \in TestAccounts

\* isSellerBlockedToday without the exemption of test accounts
isSellerBlockedAnyAccount(st, s) ==
  \E i \in 1..Len(st.convs) :
    /\ st.convs[i].seller = s
    /\ st.convs[i].state = "FAILED"
    /\ st.convs[i].today

isSellerBlockedToday(st, s) ==
  /\ ~isTestAccount(s)
  /\ \E i \in 1..Len(st.convs) :
       /\ st.convs[i].seller = s
       /\ st.convs[i].state = "FAILED"
       /\ st.convs[i].today

\* the most recently created conversation of this seller and coupon type
\* within RECENT_CONVERSATION_WINDOW_MS (0 = null); ids grow with createdAt
findRecentConversation(st, s, t) ==
  LET R == {i \in 1..Len(st.convs) : /\ st.convs[i].seller = s
                                      /\ st.convs[i].ctype = t
                                      /\ st.convs[i].recent}
  IN IF R = {} THEN 0 ELSE CHOOSE i \in R : \A j \in R : j <= i

resumeConversation(st, c) ==
  LET s1 == Return([st EXCEPT !.cur = c], "conv")
      q == st.convs[c].state
  IN CASE q \in {"INITIATING_CONTACT", "AWAITING_PAYMENT_INFO"} ->
            SetConv(sendToSeller(s1, c, "askUpi"), c, "state", "AWAITING_PAYMENT_INFO")
       [] q = "PAYMENT_PENDING" ->
            IF st.convs[c].upi THEN requestUserConfirmationAndPay(s1, c)
            ELSE SetConv(sendToSeller(s1, c, "askUpi"), c, "state", "AWAITING_PAYMENT_INFO")
       [] OTHER -> s1

\* resumeIncompleteConversations without the exemption of test accounts
RECURSIVE resumeWithoutExemption(_)
resumeWithoutExemption(st) ==
  IF st.boot = <<>> \/ st.ovf \/ st.threw THEN st
  ELSE
  LET c == Head(st.boot).id
      stale == Head(st.boot).stale
      s == st.convs[c].seller
      s0 == Emit([st EXCEPT !.boot = Tail(@)],
                 <<"lastActivity", c, IF stale THEN "stale" ELSE "fresh", 0>>)
  IN IF stale
     THEN resumeWithoutExemption(
            [s0 EXCEPT !.convs[c].state = "FAILED",
                       !.convs[c].failureReason = "No response for 10+ minutes"])
     ELSE LET s1 == Emit([s0 EXCEPT !.active = @ \cup {s}],
                         <<"resuming", c, "", 0>>)
              s2 == resumeConversation(s1, c)
          IN IF st.convs[c].state = "PAYMENT_PENDING" /\ st.convs[c].upi
             THEN [s2 EXCEPT !.bootFut = Len(s2.futs)]
             ELSE resumeWithoutExemption(s2)

\* index.ts resumeIncompleteConversations from the conversation at the head
\* of `boot' on: a conversation of a seller who is not a test account and
\* whose last activity is more than 10 minutes ago is marked FAILED; any
\* other is resumed, and the loop waits for resumeConversation to return,
\* which for PAYMENT_PENDING with a payment identifier is when its
\* checkpoints have been answered
RECURSIVE resumeIncompleteConversations(_)
resumeIncompleteConversations(st) ==
  IF st.boot = <<>> \/ st.ovf \/ st.threw THEN st
  ELSE
  LET c == Head(st.boot).id
      stale == Head(st.boot).stale
      s == st.convs[c].seller
      s0 == Emit([st EXCEPT !.boot = Tail(@)],
                 <<"lastActivity", c, IF stale THEN "stale" ELSE "fresh", 0>>)
  IN IF ~isTestAccount(s) /\ stale
     THEN resumeIncompleteConversations(
            [s0 EXCEPT !.convs[c].state = "FAILED",
                       !.convs[c].failureReason = "No response for 10+ minutes"])
     ELSE LET s1 == Emit([s0 EXCEPT !.active = @ \cup {s}],
                         <<"resuming", c, "", 0>>)
              s2 == resumeConversation(s1, c)
          IN IF st.convs[c].state = "PAYMENT_PENDING" /\ st.convs[c].upi
             THEN [s2 EXCEPT !.bootFut = Len(s2.futs)]
             ELSE resumeIncompleteConversations(s2)

\* resolve(value) of future i: a promise settles once; the function that
\* awaits it continues with the first value, and when it returns, the
\* startup loop that awaits it continues
Resolve(st, i, v, fetch) ==
  IF st.futs[i].st # "pending" THEN st
  ELSE LET s1 == [st EXCEPT !.futs[i].st = IF v THEN "true" ELSE "false"]
           c == st.futs[i].conv
           s2 == IF st.futs[i].kind = "user"
                 THEN AfterUserConfirmation(s1, c, v)
                 ELSE AfterPaymentConfirmation(s1, c, v, fetch)
       IN IF st.bootFut # i \/ s2.threw \/ s2.ovf THEN s2
          ELSE IF st.futs[i].kind = "user" /\ v
          THEN [s2 EXCEPT !.bootFut = Len(s2.futs)]
          ELSE resumeIncompleteConversations([s2 EXCEPT !.bootFut = 0])

NewConversation(s, t, m) ==
  [seller |-> s, ctype |-> t, state |-> "INITIATING_CONTACT", upi |-> FALSE,
   mess |-> m, fu |-> 0, failureReason |-> "", refundRequested |-> FALSE,
   refundReceived |-> FALSE, refundScreenshotReceived |-> FALSE,
   recent |-> TRUE, today |-> TRUE, completedAt |-> FALSE]

\* m: detectMessNameInMessage(rawMessage), NoMess when none is detected
startConversation(st, s, t, m) ==
  IF Len(st.convs) >= MaxConvs THEN [st EXCEPT !.ovf = TRUE]
  ELSE
  LET c == Len(st.convs) + 1
      s1 == Return([st EXCEPT !.convs = Append(@, NewConversation(s, t, m)),
                              !.cur = c], "conv")
      prefs == MessPreference(t)
  IN IF m # NoMess
     THEN IF prefs # {} /\ m \notin prefs
          THEN failConversation(sendMessage(s1, c, "messMismatchDecline"), c,
                                "Mess mismatch")
          ELSE SetConv(sendMessage(s1, c, "initial"), c, "state",
                       "AWAITING_PAYMENT_INFO")
     ELSE SetConv(sendMessage(sendMessage(s1, c, "initial"), c, "askMess"),
                  c, "state", "AWAITING_MESS_INFO")

\* startOrResumeConversation without the one-seller-at-a-time check
startOrResumeAnySeller(st, s, t, m) ==
  LET null == Return(st, "null")
      r == findRecentConversation(st, s, t)
  IN IF isSellerBlockedToday(st, s) THEN null
     ELSE IF r # 0 /\ st.convs[r].state = "COMPLETED" /\ ~isTestAccount(s)
     THEN null
     ELSE IF r # 0 /\ st.convs[r].state \notin Terminal
     THEN resumeConversation(st, r)
     ELSE startConversation(st, s, t, m)

startOrResumeConversation(st, s, t, m) ==
  LET null == Return(st, "null")
      r == findRecentConversation(st, s, t)
  IN IF isSellerBlockedToday(st, s) THEN null
     ELSE IF /\ st.cur # 0
             /\ st.convs[st.cur].state \notin Terminal
             /\ st.convs[st.cur].seller # s
     THEN null
     ELSE IF r # 0 /\ st.convs[r].state = "COMPLETED" /\ ~isTestAccount(s)
     THEN null
     ELSE IF r # 0 /\ st.convs[r].state \notin Terminal
     THEN resumeConversation(st, r)
     ELSE startConversation(st, s, t, m)

\* index.ts handleSellMessage: the seller becomes an active seller when a
\* conversation is returned
handleSellMessage(st, s, t, m) ==
  LET s1 == startOrResumeConversation(st, s, t, m)
  IN IF s1.res = "null" THEN s1 ELSE [s1 EXCEPT !.active = @ \cup {s}]

\* ------------------------------------------------------- seller messages
\* ResponseAnalysis of messageParser.analyzeSellerResponse; price 0 = null,
\* pay = which of useSameNumber / upiId / phoneNumber is set
An(av, pr, pay, ag, hc, nmi, clar) ==
  [available |-> av, price |-> pr, pay |-> pay, agreesToSale |-> ag,
   hasCoupon |-> hc, needsMoreInfo |-> nmi, needsClarification |-> clar]

\* the pattern branches of analyzeSellerResponse
SameNumber == An("T", 0, "same", "T", FALSE, FALSE, FALSE)
NotAvailable == An("F", 0, "none", "F", FALSE, FALSE, FALSE)
SimpleAgreement == An("T", 0, "none", "T", FALSE, TRUE, FALSE)
PaymentInfo == An("T", 0, "upi", "T", FALSE, FALSE, FALSE)
\* the LLM branch: a clarification keeps price and hasCoupon only
Clarification(pr) == An("N", pr, "none", "N", FALSE, TRUE, TRUE)
Llm(av, pr, pay, ag, hc) == An(av, pr, pay, ag, hc, pay = "none", FALSE)
Nothing == Llm("N", 0, "none", "N", FALSE)

\* detectSellerCancellation: n matched patterns, confidence in tenths
cancelConfidence(n) == IF n = 0 THEN 0 ELSE Min(5 + 2 * n, 10)
isCancelling(msg) ==
  msg.cancelN > 0 /\ cancelConfidence(msg.cancelN) > CancelThreshold
\* detectRefundConfirmation: k matched patterns, or a simple confirmation
refundConfidence(k, simple) ==
  IF k > 0 THEN Min(6 + 2 * k, 10) ELSE IF simple THEN 6 ELSE 0
isRefundConfirmed(msg) == msg.refundN > 0 \/ msg.simple

\* a seller message, by what the handlers read of it
Text(len, shortAck, ack, wait, payQuery, mess, cancelN, refundN, simple, an) ==
  [media |-> 0, len |-> len, shortAck |-> shortAck, ack |-> ack, wait |-> wait,
   payQuery |-> payQuery, mess |-> mess, cancelN |-> cancelN,
   refundN |-> refundN, simple |-> simple, an |-> an]
Plain(len, an) == Text(len, FALSE, FALSE, FALSE, FALSE, NoMess, 0, 0, FALSE, an)
Image(i) == [Text(0, TRUE, FALSE, FALSE, FALSE, NoMess, 0, 0, FALSE, Nothing)
             EXCEPT !.media = i]

Msgs ==
  { Text(2, TRUE, TRUE, FALSE, FALSE, NoMess, 0, 0, TRUE, SimpleAgreement),  \* "ok"
    Text(4, FALSE, FALSE, TRUE, TRUE, NoMess, 0, 0, FALSE, Nothing),        \* "wait"
    Text(9, FALSE, FALSE, TRUE, TRUE, NoMess, 0, 0, FALSE,
         Llm("T", 71, "none", "T", FALSE)),                     \* "wait, its 75"
    Text(9, FALSE, FALSE, FALSE, FALSE, NoMess, 1, 0, FALSE,
         Llm("T", 71, "none", "N", FALSE)),            \* "sorry, 75 per coupon"
    Text(9, FALSE, FALSE, FALSE, FALSE, NoMess, 1, 0, FALSE, Nothing), \* "sorry cant sell"
    Plain(4, NotAvailable),                                              \* "sold"
    Plain(9, PaymentInfo),                                            \* "name@upi"
    Plain(9, SameNumber),                                          \* "same number"
    Plain(9, Llm("T", 71, "none", "T", FALSE)),                          \* "75 rs"
    Plain(9, Llm("T", 71, "upi", "T", FALSE)),              \* "75, pay to <id>"
    Plain(9, Llm("T", 70, "upi", "T", FALSE)),              \* "70, pay to <id>"
    Plain(9, Llm("T", 70, "none", "T", FALSE)),                          \* "70 rs"
    Plain(9, Llm("F", 70, "none", "F", FALSE)),   \* long "it was 70 but is taken"
    Plain(9, Clarification(71)),
    Plain(9, Clarification(0)),
    Text(9, FALSE, FALSE, FALSE, TRUE, NoMess, 0, 0, FALSE,
         Llm("N", 0, "none", "N", TRUE)),                            \* "sent it"
    Plain(9, Nothing),                                          \* small talk
    Text(9, FALSE, FALSE, FALSE, TRUE, NoMess, 0, 1, FALSE, Nothing) } \* "refunded, sent back"
  \cup { [Plain(3, Nothing) EXCEPT !.mess = m] : m \in MessNames }
  \cup { Image(i) : i \in 1..MaxImg }

handleAwaitingMessInfo(st, c, msg) ==
  IF msg.shortAck THEN st
  ELSE IF msg.wait THEN sendToSeller(st, c, "waitAck")
  ELSE IF msg.mess # NoMess
  THEN LET s1 == SetConv(st, c, "mess", msg.mess)
           prefs == MessPreference(st.convs[c].ctype)
       IN IF prefs # {} /\ msg.mess \notin prefs
          THEN failConversation(sendToSeller(s1, c, "messMismatchDecline"), c,
                                "Mess mismatch")
          ELSE sendToSeller(SetConv(s1, c, "state", "AWAITING_PAYMENT_INFO"),
                            c, "askUpi")
  ELSE IF msg.an.available = "F"
  THEN failConversation(sendToSeller(st, c, "notAvailable"), c,
                        "Coupon not available")
  ELSE sendToSeller(sendToSeller(st, c, "conversational"), c, "askMess")

\* the reset of the cancellation counter when the seller agrees again
ResetCancelOnAgreement(st, c, agrees) ==
  IF st.cancelSt[c] > 0 /\ agrees THEN [st EXCEPT !.cancelSt[c] = 0] ELSE st

\* handleAwaitingPaymentInfo taking the payment identifier before it looks
\* at the price
handleAwaitingPaymentInfoPayFirst(st, c, msg) ==
  LET a == msg.an
  IN
  IF msg.wait THEN sendToSeller(st, c, "waitAck")
  ELSE IF a.needsClarification THEN sendToSeller(st, c, "clarification")
  ELSE IF a.available = "F"
  THEN failConversation(sendToSeller(st, c, "notAvailable"), c,
                        "Coupon not available")
  ELSE IF a.pay # "none"
  THEN requestUserConfirmationAndPay(
         [st EXCEPT !.cur = c,
                    !.convs[c].upi = TRUE,
                    !.convs[c].state = "PAYMENT_PENDING"], c)
  ELSE IF a.price # 0 /\ a.price > FIXED_PRICE
  THEN failConversation(sendToSeller(st, c, "decline"), c, "Price")
  ELSE sendToSeller(st, c, "askUpi")

handleAwaitingPaymentInfo(st, c, msg) ==
  LET a == msg.an
      k == st.cancelSt[c]
  IN
  IF msg.wait THEN sendToSeller(st, c, "waitAck")
  ELSE IF isCancelling(msg)
  THEN IF k = 0 THEN [sendToSeller(st, c, "cancelFollowUp") EXCEPT !.cancelSt[c] = 1]
       ELSE IF k = 1 THEN [sendToSeller(st, c, "convince") EXCEPT !.cancelSt[c] = 2]
       ELSE failConversation(
              [sendToSeller(st, c, "acceptCancellation") EXCEPT !.cancelSt[c] = 0],
              c, "Seller cancelled the deal")
  ELSE
  LET s0 == ResetCancelOnAgreement(st, c,
              a.agreesToSale = "T" \/ a.available = "T")
  IN
  IF a.needsClarification THEN sendToSeller(s0, c, "clarification")
  ELSE IF a.available = "F"
  THEN failConversation(sendToSeller(s0, c, "notAvailable"), c,
                        "Coupon not available")
  ELSE IF a.price # 0 /\ a.price > FIXED_PRICE
  THEN failConversation(sendToSeller(s0, c, "decline"), c, "Price")
  ELSE IF a.pay # "none"
  THEN requestUserConfirmationAndPay(
         [s0 EXCEPT !.cur = c,
                    !.convs[c].upi = TRUE,
                    !.convs[c].state = "PAYMENT_PENDING"], c)
  ELSE IF a.agreesToSale = "T" \/ a.available = "T"
  THEN sendToSeller(s0, c, "askUpi")
  ELSE IF msg.len > 5 /\ ~a.needsMoreInfo
  THEN sendToSeller(s0, c, "conversational")
  ELSE sendToSeller(s0, c, "askUpi")

handlePaymentPending(st, c, msg) ==
  IF msg.media # 0
  THEN sendToSeller([st EXCEPT !.early[c] = msg.media, !.recv[c] = msg.media],
                    c, "gotIt")
  ELSE IF msg.shortAck THEN st
  ELSE IF msg.payQuery \/ msg.len > 3 THEN sendToSeller(st, c, "payingNow")
  ELSE st

\* handleAwaitingCoupon accepting a cancellation as before the payment
handleAwaitingCouponNoRefund(st, c, msg, fetch) ==
  LET k == st.cancelSt[c]
      a == msg.an
      scanned == scanChatForCouponImage(st, c, fetch)
  IN
  IF st.early[c] # 0
  THEN completeConversation([st EXCEPT !.early[c] = 0, !.cancelSt[c] = 0],
                            c, st.early[c])
  ELSE IF scanned # 0
  THEN completeConversation([st EXCEPT !.cancelSt[c] = 0], c, scanned)
  ELSE IF msg.media # 0
  THEN completeConversation([st EXCEPT !.cancelSt[c] = 0], c, msg.media)
  ELSE IF isCancelling(msg)
  THEN IF k = 0 THEN [sendToSeller(st, c, "cancelFollowUp") EXCEPT !.cancelSt[c] = 1]
       ELSE IF k = 1 THEN [sendToSeller(st, c, "convince") EXCEPT !.cancelSt[c] = 2]
       ELSE failConversation(
              [sendToSeller(st, c, "acceptCancellation") EXCEPT !.cancelSt[c] = 0],
              c, "Seller cancelled the deal")
  ELSE
  LET s0 == ResetCancelOnAgreement(st, c, a.agreesToSale = "T" \/ a.hasCoupon)
  IN
  IF msg.wait THEN sendToSeller(s0, c, "waitAck")
  ELSE IF msg.ack THEN s0
  ELSE IF msg.len > 3 /\ ~a.hasCoupon THEN sendToSeller(s0, c, "conversational")
  ELSE s0

\* handleAwaitingCoupon giving in at the second withdrawal signal
handleAwaitingCouponHasty(st, c, msg, fetch) ==
  LET k == st.cancelSt[c]
      a == msg.an
      scanned == scanChatForCouponImage(st, c, fetch)
  IN
  IF st.early[c] # 0
  THEN completeConversation([st EXCEPT !.early[c] = 0, !.cancelSt[c] = 0],
                            c, st.early[c])
  ELSE IF scanned # 0
  THEN completeConversation([st EXCEPT !.cancelSt[c] = 0], c, scanned)
  ELSE IF msg.media # 0
  THEN completeConversation([st EXCEPT !.cancelSt[c] = 0], c, msg.media)
  ELSE IF isCancelling(msg)
  THEN IF k = 0 THEN [sendToSeller(st, c, "cancelFollowUp") EXCEPT !.cancelSt[c] = 1]
       ELSE sendToSelf(
              [sendToSeller(st, c, "refundRequest")
                 EXCEPT !.cancelSt[c] = 0,
                        !.convs[c].state = "AWAITING_REFUND",
                        !.convs[c].refundRequested = TRUE],
              "sellerCancelledAfterPayment")
  ELSE
  LET s0 == ResetCancelOnAgreement(st, c, a.agreesToSale = "T" \/ a.hasCoupon)
  IN
  IF msg.wait THEN sendToSeller(s0, c, "waitAck")
  ELSE IF msg.ack THEN s0
  ELSE IF msg.len > 3 /\ ~a.hasCoupon THEN sendToSeller(s0, c, "conversational")
  ELSE s0

handleAwaitingCoupon(st, c, msg, fetch) ==
  LET k == st.cancelSt[c]
      a == msg.an
      scanned == scanChatForCouponImage(st, c, fetch)
  IN
  IF st.early[c] # 0
  THEN completeConversation([st EXCEPT !.early[c] = 0, !.cancelSt[c] = 0],
                            c, st.early[c])
  ELSE IF scanned # 0
  THEN completeConversation([st EXCEPT !.cancelSt[c] = 0], c, scanned)
  ELSE IF msg.media # 0
  THEN completeConversation([st EXCEPT !.cancelSt[c] = 0], c, msg.media)
  ELSE IF isCancelling(msg)
  THEN IF k = 0 THEN [sendToSeller(st, c, "cancelFollowUp") EXCEPT !.cancelSt[c] = 1]
       ELSE IF k = 1 THEN [sendToSeller(st, c, "convince") EXCEPT !.cancelSt[c] = 2]
       ELSE sendToSelf(
              [sendToSeller(st, c, "refundRequest")
                 EXCEPT !.cancelSt[c] = 0,
                        !.convs[c].state = "AWAITING_REFUND",
                        !.convs[c].refundRequested = TRUE],
              "sellerCancelledAfterPayment")
  ELSE
  LET s0 == ResetCancelOnAgreement(st, c, a.agreesToSale = "T" \/ a.hasCoupon)
  IN
  IF msg.wait THEN sendToSeller(s0, c, "waitAck")
  ELSE IF msg.ack THEN s0
  ELSE IF msg.len > 3 /\ ~a.hasCoupon THEN sendToSeller(s0, c, "conversational")
  ELSE s0

\* handleAwaitingRefund asking for the proof after any longer message
handleAwaitingRefundEager(st, c, msg) ==
  IF isRefundConfirmed(msg) \/ msg.len > 2
  THEN SetConv(sendToSeller(st, c, "askRefundScreenshot"), c, "state",
               "AWAITING_REFUND_SCREENSHOT")
  ELSE IF msg.wait THEN sendToSeller(st, c, "waitAck")
  ELSE st

handleAwaitingRefund(st, c, msg) ==
  IF /\ isRefundConfirmed(msg)
     /\ refundConfidence(msg.refundN, msg.simple) > RefundThreshold
  THEN SetConv(sendToSeller(st, c, "askRefundScreenshot"), c, "state",
               "AWAITING_REFUND_SCREENSHOT")
  ELSE IF msg.wait THEN sendToSeller(st, c, "waitAck")
  ELSE IF msg.len > 2 THEN sendToSeller(st, c, "refundConversation")
  ELSE st

\* handleAwaitingRefundScreenshot thanking for the proof without recording it
handleAwaitingRefundScreenshotUnrecorded(st, c, msg) ==
  IF msg.media # 0
  THEN LET s1 == sendToSeller(st, c, "refundThanks")
           s3 == [sendToSelf(s1, "refundReceived") EXCEPT !.cur = 0]
       IN failConversation(s3, c, "REFUND RECEIVED")
  ELSE IF isRefundConfirmed(msg) THEN sendToSeller(st, c, "askRefundScreenshot")
  ELSE IF msg.len > 2 THEN sendToSeller(st, c, "refundConversation")
  ELSE st

handleAwaitingRefundScreenshot(st, c, msg) ==
  IF msg.media # 0
  THEN LET s1 == sendToSeller(st, c, "refundThanks")
           s2 == [s1 EXCEPT !.convs[c].refundReceived = TRUE,
                            !.convs[c].refundScreenshotReceived = TRUE]
           s3 == [sendToSelf(s2, "refundReceived") EXCEPT !.cur = 0]
       IN failConversation(s3, c, "REFUND RECEIVED")
  ELSE IF isRefundConfirmed(msg) THEN sendToSeller(st, c, "askRefundScreenshot")
  ELSE IF msg.len > 2 THEN sendToSeller(st, c, "refundConversation")
  ELSE st

\* the first non-terminal conversation of the seller in map order (0 = none)
ConversationOf(st, s) ==
  LET R == {i \in NonTerminal(st) : st.convs[i].seller = s}
  IN IF R = {} THEN 0 ELSE CHOOSE i \in R : \A j \in R : i <= j

\* handleSellerMessage that tracks the image before it looks for the
\* conversation
handleSellerMessageTracking(st, s, msg, fetch) ==
  LET c == ConversationOf(st, s)
      Own == {i \in 1..Len(st.convs) : st.convs[i].seller = s}
  IN IF c = 0
     THEN Emit([st EXCEPT !.recv = [i \in Ids |->
                            IF i \in Own /\ msg.media # 0 THEN msg.media
                            ELSE @[i]]],
               <<"noActiveConversation", 0, s, 0>>)
     ELSE
     LET q == st.convs[c].state
         s1 == IF msg.media = 0 THEN st
               ELSE IF q = "AWAITING_COUPON" THEN [st EXCEPT !.recv[c] = msg.media]
               ELSE sendToSeller([st EXCEPT !.recv[c] = msg.media,
                                            !.early[c] = msg.media], c, "gotIt")
     IN CASE q = "AWAITING_MESS_INFO" -> handleAwaitingMessInfo(s1, c, msg)
          [] q = "AWAITING_PAYMENT_INFO" -> handleAwaitingPaymentInfo(s1, c, msg)
          [] q = "PAYMENT_PENDING" -> handlePaymentPending(s1, c, msg)
          [] q = "AWAITING_COUPON" -> handleAwaitingCoupon(s1, c, msg, fetch)
          [] q = "AWAITING_REFUND" -> handleAwaitingRefund(s1, c, msg)
          [] q = "AWAITING_REFUND_SCREENSHOT" ->
               handleAwaitingRefundScreenshot(s1, c, msg)
          [] OTHER -> s1

handleSellerMessage(st, s, msg, fetch) ==
  LET c == ConversationOf(st, s)
  IN IF c = 0 THEN Emit(st, <<"noActiveConversation", 0, s, 0>>)
     ELSE
     LET q == st.convs[c].state
         s1 == IF msg.media = 0 THEN st
               ELSE IF q = "AWAITING_COUPON" THEN [st EXCEPT !.recv[c] = msg.media]
               ELSE sendToSeller([st EXCEPT !.recv[c] = msg.media,
                                            !.early[c] = msg.media], c, "gotIt")
     IN CASE q = "AWAITING_MESS_INFO" -> handleAwaitingMessInfo(s1, c, msg)
          [] q = "AWAITING_PAYMENT_INFO" -> handleAwaitingPaymentInfo(s1, c, msg)
          [] q = "PAYMENT_PENDING" -> handlePaymentPending(s1, c, msg)
          [] q = "AWAITING_COUPON" -> handleAwaitingCoupon(s1, c, msg, fetch)
          [] q = "AWAITING_REFUND" -> handleAwaitingRefund(s1, c, msg)
          [] q = "AWAITING_REFUND_SCREENSHOT" ->
               handleAwaitingRefundScreenshot(s1, c, msg)
          [] OTHER -> s1

\* ------------------------------------------------------- follow-up timer
\* handleCouponNotReceived without the release of the slot
handleCouponNotReceivedHolding(st, c) ==
  Bump(sendToSelf(st, "couponNotReceived"), c, "alert")

handleCouponNotReceived(st, c) ==
  Bump([sendToSelf(st, "couponNotReceived") EXCEPT !.cur = 0], c, "alert")

\* one firing of the checkAndFollowUp timeout of conversation c
checkAndFollowUp(st, c, fetch) ==
  LET s0 == [st EXCEPT !.timers[c] = @ - 1]
      scanned == scanChatForCouponImage(s0, c, fetch)
      n == s0.convs[c].fu
  IN
  IF s0.convs[c].state # "AWAITING_COUPON" THEN s0
  ELSE IF s0.early[c] # 0
  THEN completeConversation([s0 EXCEPT !.early[c] = 0, !.cancelSt[c] = 0],
                            c, s0.early[c])
  ELSE IF scanned # 0
  THEN completeConversation([s0 EXCEPT !.cancelSt[c] = 0], c, scanned)
  ELSE IF n >= MAX_FOLLOW_UPS THEN handleCouponNotReceived(s0, c)
  ELSE [sendToSeller(s0, c, "couponFollowUp")
          EXCEPT !.convs[c].fu = n + 1, !.timers[c] = @ + 1]

\* ------------------------------------------------------ manual overrides
Result(st, id, v) ==
  [st EXCEPT !.res = v, !.out = Append(@, <<"return", 0, v, id>>)]

manuallyCompleteConversation(st, id) ==
  IF id \notin 1..Len(st.convs) THEN Result(st, id, "failure")
  ELSE IF st.convs[id].state \in Terminal THEN Result(st, id, "failure")
  ELSE
  LET s1 == [st EXCEPT !.convs[id].state = "COMPLETED",
                       !.convs[id].completedAt = TRUE,
                       !.early[id] = 0, !.recv[id] = 0, !.cancelSt[id] = 0,
                       !.cur = IF st.cur = id THEN 0 ELSE st.cur]
      s2 == sendToSeller(s1, id, "thanks")
      s3 == Bump(Emit(s2, <<"recordSuccessfulDeal", id, "", 0>>), id, "succ")
      s4 == sendToSelf(s3, "manuallyCompleted")
      s5 == Bump(Emit(s4, <<"onCouponPurchased", id, "", 0>>), id, "purch")
  IN Result(s5, id, "success")

\* manuallyFailConversation without the check of the terminal states
manuallyFailAnyState(st, id) ==
  IF id \notin 1..Len(st.convs) THEN Result(st, id, "failure")
  ELSE
  LET s1 == sendToSeller(st, id, "cancel")
      s2 == [s1 EXCEPT !.early[id] = 0, !.recv[id] = 0, !.cancelSt[id] = 0]
  IN Result(failConversation(s2, id, "Manually cancelled"), id, "success")

manuallyFailConversation(st, id) ==
  IF id \notin 1..Len(st.convs) THEN Result(st, id, "failure")
  ELSE IF st.convs[id].state \in Terminal THEN Result(st, id, "failure")
  ELSE
  LET s1 == sendToSeller(st, id, "cancel")
      s2 == [s1 EXCEPT !.early[id] = 0, !.recv[id] = 0, !.cancelSt[id] = 0]
  IN Result(failConversation(s2, id, "Manually cancelled"), id, "success")

\* index.ts setUserCancellationHandler callback, once detectUserCancellation
\* reports that the operator's own message to the seller cancels the deal
userCancellation(st, s) ==
  LET c == ConversationOf(st, s)
  IN IF c = 0 THEN st
     ELSE [st EXCEPT !.convs[c].state = "FAILED",
                     !.convs[c].failureReason = "User cancelled",
                     !.active = @ \ {s}]

\* ------------------------------------------- checkpoint resolution channels
\* dashboard onConfirmPurchase / onDeclinePurchase and the terminal "ok" /
\* "no": resolve the pending confirmation and clear its registry entry
resolvePurchase(st, v, fetch) ==
  LET c == st.pendConf
      i == IF c = 0 THEN 0 ELSE st.userRes[c]
  IN IF c = 0 \/ i = 0 THEN st
     ELSE LET s1 == sendMessage(st, c, IF v THEN "waitPaying" ELSE "userDeclined")
              s2 == [s1 EXCEPT !.userRes[c] = 0, !.pendConf = 0]
          IN Resolve(s2, i, v, fetch)

\* "paid" on any channel (v = TRUE), the payment half of the terminal
\* "cancel" (v = FALSE)
resolvePayment(st, v, fetch) ==
  LET c == st.pendPay
      i == IF c = 0 THEN 0 ELSE st.payRes[c]
  IN IF c = 0 \/ i = 0 THEN st
     ELSE Resolve([st EXCEPT !.payRes[c] = 0, !.pendPay = 0], i, v, fetch)

\* terminal "cancel": declines the pending confirmation, then the payment
terminalCancel(st, fetch) ==
  resolvePayment(resolvePurchase(st, FALSE, fetch), FALSE, fetch)

\* handleMyMessage "ok" / "no" up to its await: the resolver of the pending
\* confirmation is read and kept by the suspended handler
selfChatBegin(st, v) ==
  LET c == st.pendConf
      i == IF c = 0 THEN 0 ELSE st.userRes[c]
  IN IF c = 0 \/ i = 0 THEN st
     ELSE IF Len(st.inflight) >= MaxInflight THEN [st EXCEPT !.ovf = TRUE]
     ELSE [st EXCEPT !.inflight = Append(@, [fut |-> i, val |-> v])]

RemoveAt(q, k) == [j \in 1..(Len(q) - 1) |-> IF j < k THEN q[j] ELSE q[j + 1]]

\* handleMyMessage after the await: the message to the seller has been sent,
\* whatever confirmation is pending now is cleared, the kept resolver is called
selfChatEnd(st, k, fetch) ==
  LET h == st.inflight[k]
      c == st.pendConf
      s1 == sendMessage(st, st.futs[h.fut].conv,
                        IF h.val THEN "waitPaying" ELSE "userDeclined")
      s2 == [s1 EXCEPT !.inflight = RemoveAt(@, k),
                       !.pendConf = 0,
                       !.userRes = IF c = 0 THEN @ ELSE [@ EXCEPT ![c] = 0]]
  IN Resolve(s2, h.fut, h.val, fetch)

\* the decision timeout of future i (2 minutes / 10 minutes after it was
\* registered): if the registry has an entry for the conversation, the entry
\* is deleted and the future's own resolve is called with false
decisionTimeout(st, i, fetch) ==
  LET c == st.futs[i].conv
      s0 == [st EXCEPT !.futs[i].fired = TRUE]
  IN IF st.futs[i].kind = "user"
     THEN IF st.userRes[c] = 0 THEN s0
          ELSE Resolve([s0 EXCEPT !.userRes[c] = 0,
                                  !.pendConf = IF @ = c THEN 0 ELSE @],
                       i, FALSE, fetch)
     ELSE IF st.payRes[c] = 0 THEN s0
          ELSE Resolve([s0 EXCEPT !.payRes[c] = 0,
                                  !.pendPay = IF @ = c THEN 0 ELSE @],
                       i, FALSE, fetch)

\* timeouts fire in the order of their deadlines: a confirmation timeout
\* after those of earlier confirmations, a payment timeout (the longer one)
\* after those of every earlier future
TimeoutDue(i) ==
  /\ i \in 1..Len(futs)
  /\ ~futs[i].fired
  /\ \A j \in 1..(i - 1) :
       (futs[i].kind = "pay" \/ futs[j].kind = "user") => futs[j].fired

\* --------------------------------------------------- happy-path scenario
\* happy[c] is the stage conversation c has reached in the scenario "offer
\* without mess name, accepted mess named, payment identifier given, purchase
\* approved, payment asserted, image received" (1..6), 0 once any other
\* event has involved the conversation.
FutsOf(st, c) == {<<i, st.futs[i]>> : i \in {j \in 1..Len(st.futs) : st.futs[j].conv = c}}

Touched(st0, st1, c) ==
  \/ c > Len(st0.convs)
  \/ st0.convs[c] # st1.convs[c]
  \/ st0.early[c] # st1.early[c]
  \/ st0.recv[c] # st1.recv[c]
  \/ st0.cancelSt[c] # st1.cancelSt[c]
  \/ st0.chatImg[c] # st1.chatImg[c]
  \/ st0.timers[c] # st1.timers[c]
  \/ st0.userRes[c] # st1.userRes[c]
  \/ st0.payRes[c] # st1.payRes[c]
  \/ FutsOf(st0, c) # FutsOf(st1, c)
  \/ \E k \in 1..Len(st1.out) : st1.out[k][2] = c

\* st1: the state after the step; c, stage: the conversation for which the
\* step is the next event of the scenario (c = 0: for none)
Scenario(st1, c, stage) ==
  [st1 EXCEPT !.happy = [i \in Ids |->
      IF i = c THEN stage
      ELSE IF i <= Len(st1.convs) /\ Touched(Here, st1, i) THEN 0
      ELSE happy[i]]]

NamesAcceptedMess(st, c, msg) ==
  /\ msg.media = 0 /\ ~msg.shortAck /\ ~msg.wait
  /\ msg.mess # NoMess
  /\ MessPreference(st.convs[c].ctype) # {}
  /\ msg.mess \in MessPreference(st.convs[c].ctype)

GivesPaymentIdentifier(msg) ==
  /\ msg.media = 0 /\ ~msg.wait /\ msg.cancelN = 0
  /\ msg.an.pay # "none" /\ ~msg.an.needsClarification
  /\ msg.an.available # "F" /\ msg.an.price <= FIXED_PRICE

\* ---------------------------------------------------------------- actions
Init ==
  /\ convs = <<>>
  /\ cur = 0
  /\ early = ZeroMap
  /\ recv = ZeroMap
  /\ cancelSt = ZeroMap
  /\ chatImg = ZeroMap
  /\ futs = <<>>
  /\ userRes = ZeroMap
  /\ payRes = ZeroMap
  /\ pendConf = 0
  /\ pendPay = 0
  /\ timers = ZeroMap
  /\ inflight = <<>>
  /\ active = {}
  /\ tally = [i \in Ids |-> NoTally]
  /\ happy = ZeroMap
  /\ boot = <<>>
  /\ bootFut = 0
  /\ out = <<>>
  /\ scanning = ZeroMap
  /\ processedMessageIds = {}
  /\ detecting = [id \in MsgIds |-> 0]
  /\ seen = [id \in MsgIds |-> [detect |-> 0, sell |-> 0, skip |-> 0]]
  /\ messages = <<>>

\* a sell message reaches handleSellMessage
Offer(s, t, m) ==
  LET st1 == handleSellMessage(Here, s, t, m)
      new == Len(st1.convs) > Len(convs)
  IN Commit(IF new /\ m = NoMess THEN Scenario(st1, Len(st1.convs), 1)
            ELSE Scenario(st1, 0, 0))

\* the states in which an image of the seller comes before the payment
BeforeCoupon == {"AWAITING_PAYMENT_INFO", "PAYMENT_PENDING"}

\* a direct message of an active seller reaches handleSellerMessage; an image
\* is in the seller's chat from then on (tally.held: an image has arrived
\* in a state of BeforeCoupon)
SellerMessage(s, msg, fetch) ==
  /\ s \in active
  /\ LET c == ConversationOf(Here, s)
         st0 == IF msg.media = 0 THEN Here
                ELSE [Here EXCEPT !.chatImg = [i \in Ids |->
                        IF i <= Len(convs) /\ convs[i].seller = s
                        THEN msg.media ELSE @[i]]]
         st1 == handleSellerMessage(st0, s, msg, fetch)
         stage == IF c = 0 THEN 0
                  ELSE IF happy[c] = 1 /\ NamesAcceptedMess(Here, c, msg) THEN 2
                  ELSE IF happy[c] = 2 /\ GivesPaymentIdentifier(msg) THEN 3
                  ELSE IF happy[c] = 5 /\ msg.media # 0 THEN 6
                  ELSE 0
         st2 == IF c # 0 /\ msg.media # 0 /\ convs[c].state \in BeforeCoupon
                THEN [st1 EXCEPT !.tally[c].held = 1] ELSE st1
     IN Commit(Scenario(st2, c, stage))

\* the operator answers the purchase prompt on the dashboard or the terminal
AnswerPurchase(v, fetch) ==
  LET c == pendConf
      st1 == resolvePurchase(Here, v, fetch)
  IN Commit(IF c # 0 /\ happy[c] = 3 /\ v /\ userRes[c] # 0
               /\ futs[userRes[c]].st = "pending"
            THEN Scenario(st1, c, 4) ELSE Scenario(st1, 0, 0))

\* the operator asserts the payment ("paid") on any channel
AnswerPayment(fetch) ==
  LET c == pendPay
      st1 == resolvePayment(Here, TRUE, fetch)
  IN Commit(IF c # 0 /\ happy[c] = 4 /\ payRes[c] # 0
               /\ futs[payRes[c]].st = "pending"
            THEN Scenario(st1, c, 5) ELSE Scenario(st1, 0, 0))

TerminalCancel(fetch) == Commit(Scenario(terminalCancel(Here, fetch), 0, 0))

SelfChatBegin(v) ==
  /\ pendConf # 0
  /\ userRes[pendConf] # 0
  /\ Commit(selfChatBegin(Here, v))

SelfChatEnd(k, fetch) ==
  /\ k \in 1..Len(inflight)
  /\ LET c == futs[inflight[k].fut].conv
         st1 == selfChatEnd(Here, k, fetch)
     IN Commit(IF happy[c] = 3 /\ inflight[k].val
                  /\ futs[inflight[k].fut].st = "pending"
                  /\ pendConf \in {0, c}
               THEN Scenario(st1, c, 4) ELSE Scenario(st1, 0, 0))

DecisionTimeout(i, fetch) ==
  /\ TimeoutDue(i)
  /\ Commit(Scenario(decisionTimeout(Here, i, fetch), 0, 0))

FollowUpTick(c, fetch) ==
  /\ c \in 1..Len(convs)
  /\ timers[c] > 0
  /\ Commit(Scenario(checkAndFollowUp(Here, c, fetch), 0, 0))

ManualComplete(id) == Commit(Scenario(manuallyCompleteConversation(Here, id), 0, 0))
ManualFail(id) == Commit(Scenario(manuallyFailConversation(Here, id), 0, 0))

\* the operator writes a cancelling message to an active seller
UserCancellation(s) ==
  /\ s \in active
  /\ Commit(Scenario(userCancellation(Here, s), 0, 0))

\* the daily tracker: a coupon of this type has not been bought yet
\* (markCouponBought is called from onCouponPurchased)
canBuyCoupon(t) ==
  \A c \in 1..Len(convs) : convs[c].ctype = t => tally[c].purch = 0

\* a sell message of a monitored group: GroupMonitor hands it on only if a
\* coupon of its type is still wanted and no conversation is in progress
GroupOffer(s, t, m) ==
  /\ cur = 0
  /\ canBuyCoupon(t)
  /\ Offer(s, t, m)

\* conversation c becomes older than RECENT_CONVERSATION_WINDOW_MS
WindowExpires(c) ==
  /\ c \in 1..Len(convs)
  /\ convs[c].recent
  /\ Commit([Here EXCEPT !.convs[c].recent = FALSE])

\* midnight: no conversation has been created today any more
NewDay ==
  /\ \E c \in 1..Len(convs) : convs[c].today
  /\ Commit([Here EXCEPT !.convs = [c \in 1..Len(convs) |->
                                      [convs[c] EXCEPT !.today = FALSE]]])

\* the conversations of V in the order of the store, each with the outcome
\* of the inactivity test (S: those found inactive for more than 10 minutes)
Visits(V, S) ==
  LET n == Cardinality(V)
      f == CHOOSE g \in [1..n -> V] : \A a \in 1..n, b \in 1..n : a < b => g[a] < g[b]
  IN [k \in 1..n |-> [id |-> f[k], stale |-> f[k] \in S]]

\* the process exits (onRestart) and starts again: the conversations are
\* loaded from the state file, everything kept in memory only starts empty,
\* and resumeIncompleteConversations goes through getActiveConversations():
\* the non-terminal conversations and those of R, finished within the last
\* 15 seconds
Restart(S, R) ==
  /\ convs # <<>>
  /\ S \subseteq NonTerminal(Here)
  /\ R \subseteq {c \in 1..Len(convs) :
                    convs[c].state \in Terminal /\ convs[c].completedAt}
  /\ Commit(resumeIncompleteConversations(
       [Here EXCEPT !.cur = 0, !.early = ZeroMap, !.recv = ZeroMap,
                    !.cancelSt = ZeroMap, !.futs = <<>>, !.userRes = ZeroMap,
                    !.payRes = ZeroMap, !.pendConf = 0, !.pendPay = 0,
                    !.timers = ZeroMap, !.inflight = <<>>, !.happy = ZeroMap,
                    !.scanning = ZeroMap,
                    !.active = {convs[c].seller : c \in NonTerminal(Here)},
                    !.bootFut = 0,
                    !.boot = Visits(NonTerminal(Here) \cup R, S)]))

\* a message of the seller is handled while the transport is down: the
\* first send to the seller in its handling throws
SellerMessageSendFails(s, msg) ==
  /\ s \in active
  /\ LET st1 == handleSellerMessage([Here EXCEPT !.failAt = 1], s, msg, FALSE)
     IN st1.threw /\ Commit(st1)

\* a decision timeout fires while the transport is down
DecisionTimeoutSendFails(i) ==
  /\ TimeoutDue(i)
  /\ LET st1 == decisionTimeout([Here EXCEPT !.failAt = 1], i, FALSE)
     IN st1.threw /\ Commit(st1)

Next ==
  \/ \E s \in Sellers, t \in CouponTypes, m \in MessNames \cup {NoMess} : Offer(s, t, m)
  \/ \E s \in Sellers, msg \in Msgs, fetch \in BOOLEAN : SellerMessage(s, msg, fetch)
  \/ \E v \in BOOLEAN, fetch \in BOOLEAN : AnswerPurchase(v, fetch)
  \/ \E fetch \in BOOLEAN : AnswerPayment(fetch)
  \/ \E fetch \in BOOLEAN : TerminalCancel(fetch)
  \/ \E v \in BOOLEAN : SelfChatBegin(v)
  \/ \E k \in 1..MaxInflight, fetch \in BOOLEAN : SelfChatEnd(k, fetch)
  \/ \E i \in 1..MaxFuts, fetch \in BOOLEAN : DecisionTimeout(i, fetch)
  \/ \E c \in Ids, fetch \in BOOLEAN : FollowUpTick(c, fetch)
  \/ \E id \in 0..MaxConvs : ManualComplete(id)
  \/ \E id \in 0..MaxConvs : ManualFail(id)
  \/ \E s \in Sellers : UserCancellation(s)
  \/ \E c \in Ids : WindowExpires(c)
  \/ NewDay
  \/ \E S \in SUBSET Ids, R \in SUBSET Ids : Restart(S, R)
  \/ \E s \in Sellers, msg \in Msgs : SellerMessageSendFails(s, msg)
  \/ \E i \in 1..MaxFuts : DecisionTimeoutSendFails(i)

Spec == Init /\ [][Next]_vars

\* ------------------------------------------------------------ environments
\* The environments below are Next with the inputs drawn from smaller sets
\* and the stores kept within smaller sizes, one per family of properties.
Within(nc, nf, nt) ==
  /\ Len(convs') <= nc
  /\ Len(futs') <= nf
  /\ \A c \in Ids : timers'[c] <= nt

\* offers of two sellers against conversations in every pre-payment state
OffersConvs == 2
OffersFuts == 2
OffersTimers == 1
OffersMsgs == {m \in Msgs : m.mess = "SGR" \/ m.an = PaymentInfo}
OffersFit == Within(OffersConvs, OffersFuts, OffersTimers)

OffersNext ==
  \/ \E s \in Sellers, m \in MessNames \cup {NoMess} :
       Offer(s, "lunch", m) /\ OffersFit
  \/ \E s \in Sellers, msg \in OffersMsgs : SellerMessage(s, msg, FALSE) /\ OffersFit
  \/ \E v \in BOOLEAN : AnswerPurchase(v, FALSE) /\ OffersFit
  \/ AnswerPayment(FALSE) /\ OffersFit
  \/ \E i \in 1..MaxFuts : DecisionTimeout(i, FALSE) /\ OffersFit
  \/ \E id \in 0..MaxConvs : ManualComplete(id)
  \/ \E id \in 0..MaxConvs : ManualFail(id)

SpecOffers == Init /\ [][OffersNext]_vars

\* every text message of a seller against conversations that wait for the
\* payment identifier
QuotesConvs == 2
QuotesFuts == 2
QuotesTimers == 1
QuotesMsgs == {m \in Msgs : m.media = 0}
QuotesFit == Within(QuotesConvs, QuotesFuts, QuotesTimers)

QuotesNext ==
  \/ \E s \in Sellers, m \in {NoMess, "SGR"} : Offer(s, "lunch", m) /\ QuotesFit
  \/ \E s \in Sellers, msg \in QuotesMsgs :
       SellerMessage(s, msg, FALSE) /\ QuotesFit
  \/ \E v \in BOOLEAN : AnswerPurchase(v, FALSE) /\ QuotesFit
  \/ AnswerPayment(FALSE) /\ QuotesFit
  \/ \E i \in 1..MaxFuts : DecisionTimeout(i, FALSE) /\ QuotesFit

SpecQuotes == Init /\ [][QuotesNext]_vars

\* group offers of two sellers, payments and follow-ups up to the ceiling
SlotConvs == 3
SlotFuts == 2
SlotTimers == 1
SlotMsgs == {m \in Msgs : m.an = PaymentInfo \/ m.media # 0}
SlotFit == Within(SlotConvs, SlotFuts, SlotTimers)

SlotNext ==
  \/ \E s \in Sellers, t \in CouponTypes : GroupOffer(s, t, "SGR") /\ SlotFit
  \/ \E s \in Sellers, msg \in SlotMsgs : SellerMessage(s, msg, FALSE) /\ SlotFit
  \/ \E v \in BOOLEAN : AnswerPurchase(v, FALSE) /\ SlotFit
  \/ AnswerPayment(FALSE) /\ SlotFit
  \/ \E c \in Ids : FollowUpTick(c, FALSE) /\ SlotFit

SpecSlot == Init /\ [][SlotNext]_vars

\* group offers, and the operator answering on the dashboard, on the
\* terminal and in the self-chat while the decision timeouts run
GatewayConvs == 2
GatewayFuts == 3
GatewayTimers == 1
GatewayMsgs == {m \in Msgs : m.an = PaymentInfo}
GatewayFit == Within(GatewayConvs, GatewayFuts, GatewayTimers)

GatewayNext ==
  \/ \E s \in Sellers : GroupOffer(s, "lunch", "SGR") /\ GatewayFit
  \/ \E s \in Sellers, msg \in GatewayMsgs :
       SellerMessage(s, msg, FALSE) /\ GatewayFit
  \/ \E v \in BOOLEAN : AnswerPurchase(v, FALSE) /\ GatewayFit
  \/ AnswerPayment(FALSE) /\ GatewayFit
  \/ TerminalCancel(FALSE) /\ GatewayFit
  \/ \E v \in BOOLEAN : SelfChatBegin(v)
  \/ \E k \in 1..MaxInflight : SelfChatEnd(k, FALSE) /\ GatewayFit
  \/ \E i \in 1..MaxFuts : DecisionTimeout(i, FALSE) /\ GatewayFit

SpecGateway == Init /\ [][GatewayNext]_vars

\* ------------------------------------------------------------------ claims
InProgressWith(s) ==
  /\ cur # 0
  /\ convs[cur].state \notin Terminal
  /\ convs[cur].seller = s

Rejected == << <<"return", 0, "null", 0>> >>
\* the operation's k-th effect is its return
Returns(k) == k \in 1..Len(out) /\ out[k][1] = "return"

\* C1: while currentConversationId refers to a conversation that is neither
\* COMPLETED nor FAILED and whose seller is A, an offer of any other seller B
\* returns null, adds no conversation, sends no message and leaves
\* currentConversationId unchanged.
C1_OtherSellerRejected ==
  [][\A a \in Sellers, b \in Sellers, t \in CouponTypes,
        m \in MessNames \cup {NoMess} :
       (a # b /\ InProgressWith(a) /\ Returns(1)' /\ Offer(b, t, m))
         => (out' = Rejected /\ convs' = convs /\ cur' = cur)]_vars

\* C1 witness: an offer has just been rejected while a conversation with a
\* seller is in progress and the other seller has no conversation at all.
C1_Witness ==
  /\ out = Rejected
  /\ \E a \in Sellers : /\ InProgressWith(a)
                        /\ \A i \in 1..Len(convs) : convs[i].seller = a
                        /\ convs[cur].state = "PAYMENT_PENDING"

Refused(id) == << <<"return", 0, "failure", id>> >>
state == <<convs, cur, early, recv, cancelSt, chatImg, futs, userRes, payRes,
           pendConf, pendPay, timers, inflight, active, tally, boot, bootFut>>

\* C4: manuallyCompleteConversation and manuallyFailConversation called with
\* the id of a COMPLETED or FAILED conversation, or with an unknown id, return
\* success = false and change nothing: no field, no message, no history
\* record, no call of onCouponPurchased or onConversationFailed.
C4_ManualOverrideOfTerminalRefused ==
  [][\A id \in 0..MaxConvs :
       (/\ id \notin 1..Len(convs) \/ convs[id].state \in Terminal
        /\ Returns(Len(out))' /\ out'[Len(out')][4] = id
        /\ ManualComplete(id) \/ ManualFail(id))
         => (out' = Refused(id) /\ UNCHANGED state)]_vars

\* C4 witness: a manual override of a FAILED conversation has been refused
\* while a decision of the operator on that conversation is still awaited.
C4_Witness ==
  \E id \in 1..Len(convs) :
    /\ out = Refused(id)
    /\ convs[id].state = "FAILED"
    /\ pendConf = id

\* what a terminal state is claimed to freeze
Outcome(c) ==
  <<convs[c].state, convs[c].failureReason, convs[c].refundRequested,
    convs[c].refundReceived, convs[c].refundScreenshotReceived>>

\* C3: terminal states are absorbing: once a conversation is COMPLETED or
\* FAILED no later event changes its state, failureReason or refund flags.
C3_TerminalAbsorbing ==
  [][\A c \in 1..Len(convs) :
       convs[c].state \in Terminal => Outcome(c)' = Outcome(c)]_vars

\* the checkpoint futures registered for conversation c so far
Registered(c) == {i \in 1..Len(futs) : futs[i].conv = c}

\* the messages whose analysis yields a price of FIXED_PRICE or more
Quotes == {msg \in Msgs : msg.an.price >= FIXED_PRICE}

\* seller s writes msg while the conversation of s awaits the payment details
Quoted(s, msg) ==
  LET c == ConversationOf(Here, s)
  IN /\ c # 0
     /\ convs[c].state = "AWAITING_PAYMENT_INFO"
     /\ SellerMessage(s, msg, FALSE)

PriceRuling(s, msg) ==
  LET c == ConversationOf(Here, s)
  IN /\ msg.an.price > FIXED_PRICE
          => convs'[c].state = "FAILED" /\ Registered(c)' = {}
     /\ msg.an.price = FIXED_PRICE => convs'[c].failureReason # "Price"

Engaged(c) ==
  /\ convs[c].state \notin Terminal
  /\ convs[c].fu < MAX_FOLLOW_UPS

\* C2: the engine never starts a conversation with a new seller while a
\* conversation with a different seller is still non-terminal, except when
\* that conversation's follow-up ceiling has been reached.
C2_OneSellerAtATime ==
  [][Len(convs') > Len(convs)
       => \A c \in 1..Len(convs) :
            Engaged(c) => convs[c].seller = convs'[Len(convs')].seller]_vars

\* a resolution of a future that has been resolved before: the self-chat
\* handler calling the resolver it kept, or the future's decision timeout
LateAttempt ==
  \/ \E k \in 1..Len(inflight) :
       futs[inflight[k].fut].st # "pending" /\ SelfChatEnd(k, FALSE)
  \/ \E i \in 1..Len(futs) :
       futs[i].st # "pending" /\ DecisionTimeout(i, FALSE)

Resolutions == [i \in 1..Len(futs) |-> futs[i].st]

\* C5: a checkpoint future is resolved once, with the value of the first
\* resolution; a later attempt to resolve it (a second channel, an answer
\* after the timeout, the timeout after an answer) changes no state and makes
\* no further engine step.
C5_LaterResolutionIsNoOp ==
  [][/\ \A i \in 1..Len(futs) :
          futs[i].st # "pending" => futs'[i].st = futs[i].st
     /\ LateAttempt
          => /\ UNCHANGED <<convs, cur, userRes, payRes, pendConf, pendPay,
                            timers, active, tally>>
             /\ Resolutions' = Resolutions]_vars

\* C6: every checkpoint future is resolved at the latest by its own decision
\* timeout: once the timeout of a future has fired the future is no longer
\* pending, so no conversation waits in PAYMENT_PENDING for ever.
C6_TimeoutResolves ==
  \A i \in 1..Len(futs) : futs[i].fired => futs[i].st # "pending"

\* ------------------------------------------------ early-image environment
EarlyConvs == 2
EarlyFuts == 2
EarlyTimers == 1
EarlyMsgs == {m \in Msgs : m.an = PaymentInfo \/ m.media # 0}
EarlyFit == Within(EarlyConvs, EarlyFuts, EarlyTimers)

EarlyNext ==
  \/ \E s \in Sellers : GroupOffer(s, "lunch", "SGR") /\ EarlyFit
  \/ \E s \in Sellers, msg \in EarlyMsgs :
       SellerMessage(s, msg, FALSE) /\ EarlyFit
  \/ \E v \in BOOLEAN : AnswerPurchase(v, FALSE) /\ EarlyFit
  \/ AnswerPayment(FALSE) /\ EarlyFit
  \/ \E i \in 1..MaxFuts : DecisionTimeout(i, FALSE) /\ EarlyFit
  \/ \E c \in Ids : FollowUpTick(c, FALSE) /\ EarlyFit
  \/ \E id \in 1..MaxConvs : ManualFail(id) /\ EarlyFit

SpecEarly == Init /\ [][EarlyNext]_vars

\* the payment assertion of future i resolves true
PaymentAsserted(i) ==
  /\ futs[i].kind = "pay"
  /\ futs[i].st = "pending"
  /\ futs'[i].st = "true"

\* C7: if an image of the seller was received while the conversation was in
\* AWAITING_PAYMENT_INFO or PAYMENT_PENDING, then when the payment assertion
\* resolves true the conversation becomes COMPLETED with that image, the
\* image is forwarded once, no coupon request is sent and AWAITING_COUPON is
\* not entered.
C7_EarlyImageCompletes ==
  [][\A i \in 1..Len(futs) :
       LET c == futs[i].conv
       IN (PaymentAsserted(i) /\ tally[c].held > 0)
            => /\ convs'[c].state = "COMPLETED"
               /\ \E k \in 1..Len(out') :
                    out'[k] = <<"forward", c, "", chatImg[c]>>
               /\ tally[c].fwd = 0 /\ tally'[c].fwd = 1
               /\ tally'[c].req = 0
               /\ early'[c] = 0]_vars

\* --------------------------------------------------- follow-up environment
FollowConvs == 1
FollowFuts == 4
FollowTimers == 2
FollowMsgs == {m \in Msgs : m.an = PaymentInfo}
FollowFit == Within(FollowConvs, FollowFuts, FollowTimers)

FollowNext ==
  \/ Offer("s1", "lunch", "SGR") /\ FollowFit
  \/ \E msg \in FollowMsgs : SellerMessage("s1", msg, FALSE) /\ FollowFit
  \/ \E v \in BOOLEAN : AnswerPurchase(v, FALSE) /\ FollowFit
  \/ AnswerPayment(FALSE) /\ FollowFit
  \/ \E c \in Ids : FollowUpTick(c, FALSE) /\ FollowFit

SpecFollow == Init /\ [][FollowNext]_vars

FollowUpSent(c) ==
  \E k \in 1..Len(out) : out[k] = <<"sendToSeller", c, "couponFollowUp", 0>>

\* C8: couponFollowUpCount never exceeds MAX_FOLLOW_UPS; at the ceiling one
\* "coupon not received" alert is emitted for the conversation, not more,
\* and no follow-up message is sent for it any more unless it re-enters
\* AWAITING_COUPON.
C8_FollowUpCeiling ==
  [][\A c \in 1..Len(convs) :
       /\ convs'[c].fu <= MAX_FOLLOW_UPS
       /\ tally'[c].alert <= 1
       /\ convs[c].fu >= MAX_FOLLOW_UPS => ~FollowUpSent(c)']_vars

\* -------------------------------------------------- happy-path environment
HappyConvs == 2
HappyFuts == 2
HappyTimers == 1
HappyMsgs == {m \in Msgs : m.mess # NoMess \/ m.an = PaymentInfo \/ m.media # 0}
HappyFit == Within(HappyConvs, HappyFuts, HappyTimers)

HappyNext ==
  \/ \E s \in Sellers : GroupOffer(s, "lunch", NoMess) /\ HappyFit
  \/ \E s \in Sellers, msg \in HappyMsgs, fetch \in BOOLEAN :
       SellerMessage(s, msg, fetch) /\ HappyFit
  \/ \E v \in BOOLEAN : AnswerPurchase(v, FALSE) /\ HappyFit
  \/ \E fetch \in BOOLEAN : AnswerPayment(fetch) /\ HappyFit
  \/ \E i \in 1..MaxFuts : DecisionTimeout(i, FALSE) /\ HappyFit
  \/ \E c \in Ids, fetch \in BOOLEAN : FollowUpTick(c, fetch) /\ HappyFit

SpecHappy == Init /\ [][HappyNext]_vars

PendingFuture(c, kind) ==
  \E i \in 1..Len(futs) :
    futs[i].conv = c /\ futs[i].kind = kind /\ futs[i].st = "pending"

\* C9: the happy path. After an offer without a mess name the conversation
\* is in AWAITING_MESS_INFO; after the seller names an accepted mess, in
\* AWAITING_PAYMENT_INFO; after the seller gives a payment identifier, in
\* PAYMENT_PENDING at the purchase checkpoint; after the approval, at the
\* payment checkpoint; after the payment assertion, in AWAITING_COUPON; and
\* after the image it is COMPLETED with one success record, one call of
\* onCouponPurchased, one forward of the image and no failure record.
C9_HappyPath ==
  \A c \in 1..Len(convs) :
    /\ happy[c] = 1 => convs[c].state = "AWAITING_MESS_INFO"
    /\ happy[c] = 2 => convs[c].state = "AWAITING_PAYMENT_INFO"
    /\ happy[c] = 3 => /\ convs[c].state = "PAYMENT_PENDING"
                       /\ PendingFuture(c, "user")
    /\ happy[c] = 4 => /\ convs[c].state = "PAYMENT_PENDING"
                       /\ PendingFuture(c, "pay")
    /\ happy[c] = 5 => convs[c].state = "AWAITING_COUPON"
    /\ happy[c] = 6 => /\ convs[c].state = "COMPLETED"
                       /\ tally[c].succ = 1
                       /\ tally[c].purch = 1
                       /\ tally[c].fwd = 1
                       /\ tally[c].fail = 0
                       /\ tally[c].fsink = 0

\* C9 witness: a conversation has gone the whole happy path
C9_Witness ==
  \E c \in 1..Len(convs) :
    /\ happy[c] = 6
    /\ convs[c].state = "COMPLETED"
    /\ convs[c].mess \in MessPreference(convs[c].ctype)


\* ------------------------------------------------ claims C11 to C20
FailureRecorded(c) ==
  \E k \in 1..Len(out) : out[k] = <<"recordFailedDeal", c, "", 0>>

\* C15: when the follow-up ceiling is reached in AWAITING_COUPON (a firing
\* of checkAndFollowUp finds the conversation at the ceiling with no image in
\* memory or in the chat) the conversation stays AWAITING_COUPON, no failure
\* record is written and currentConversationId becomes null.
C15_CeilingIsSoftFailure ==
  [][\A c \in 1..Len(convs) :
       (/\ convs[c].state = "AWAITING_COUPON"
        /\ convs[c].fu >= MAX_FOLLOW_UPS
        /\ early[c] = 0
        /\ recv[c] = 0
        /\ timers'[c] < timers[c])
         => /\ convs'[c].state = "AWAITING_COUPON"
            /\ tally'[c].fail = tally[c].fail
            /\ ~FailureRecorded(c)'
            /\ cur' = 0]_vars

\* a later offer of another seller has been accepted while the conversation
\* that reached the ceiling is still AWAITING_COUPON
C15_Witness ==
  \E c \in 1..Len(convs), d \in 1..Len(convs) :
    /\ convs[c].state = "AWAITING_COUPON"
    /\ convs[c].fu >= MAX_FOLLOW_UPS
    /\ tally[c].alert > 0
    /\ tally[c].fail = 0
    /\ d > c
    /\ convs[d].seller # convs[c].seller

\* C14: each conversation has at most one unresolved purchase-approval
\* future and at most one unresolved payment-assertion future.
C14_OneFuturePerKind ==
  \A c \in 1..Len(convs), kind \in {"user", "pay"} :
    Cardinality({i \in 1..Len(futs) : /\ futs[i].conv = c
                                       /\ futs[i].kind = kind
                                       /\ futs[i].st = "pending"}) <= 1

\* C19: every seller has at most one non-terminal conversation.
C19_OneOpenConversationPerSeller ==
  \A c \in 1..Len(convs), d \in 1..Len(convs) :
    (/\ c # d
     /\ convs[c].seller = convs[d].seller
     /\ convs[c].state \notin Terminal)
      => convs[d].state \in Terminal

\* ------------------------------------------------- lookback environment
\* gated group offers for lunch, with conversations growing older than the
\* lookback window of findRecentConversation
WindowConvs == 2
WindowFuts == 2
WindowTimers == 1

WindowNext ==
  \/ \E s \in Sellers :
       GroupOffer(s, "lunch", "SGR")
         /\ Within(WindowConvs, WindowFuts, WindowTimers)
  \/ \E s \in Sellers, msg \in FollowMsgs :
       SellerMessage(s, msg, FALSE)
         /\ Within(WindowConvs, WindowFuts, WindowTimers)
  \/ \E v \in BOOLEAN :
       AnswerPurchase(v, FALSE)
         /\ Within(WindowConvs, WindowFuts, WindowTimers)
  \/ AnswerPayment(FALSE) /\ Within(WindowConvs, WindowFuts, WindowTimers)
  \/ \E c \in Ids :
       FollowUpTick(c, FALSE)
         /\ Within(WindowConvs, WindowFuts, WindowTimers)
  \/ \E c \in Ids :
       WindowExpires(c) /\ Within(WindowConvs, WindowFuts, WindowTimers)

SpecWindow == Init /\ [][WindowNext]_vars

\* C18: for every seller and coupon type the store holds at most one
\* non-terminal conversation.
C18_OneOpenConversationPerPair ==
  \A c \in 1..Len(convs), d \in 1..Len(convs) :
    (/\ c # d
     /\ convs[c].seller = convs[d].seller
     /\ convs[c].ctype = convs[d].ctype
     /\ convs[c].state \notin Terminal)
      => convs[d].state \in Terminal

\* C20: handleSellerMessage for a seller who has no non-terminal
\* conversation changes no conversation, stores no image in any buffer,
\* registers nothing and sends no message.
C20_NoConversationNoOp ==
  [][\A s \in Sellers :
       (\E k \in 1..Len(out') : out'[k] = <<"noActiveConversation", 0, s, 0>>)
         => /\ UNCHANGED <<convs, cur, early, recv, cancelSt, futs, userRes,
                           payRes, pendConf, pendPay, timers, inflight,
                           active, tally, boot, bootFut>>
            /\ out' = <<  <<"noActiveConversation", 0, s, 0>>  >>]_vars

\* a seller whose conversation has finished sends an image afterwards
C20_Witness ==
  \E s \in Sellers, c \in 1..Len(convs) :
    /\ out = <<  <<"noActiveConversation", 0, s, 0>>  >>
    /\ convs[c].seller = s
    /\ convs[c].state \in Terminal
    /\ recv[c] = 0
    /\ chatImg[c] # 0

\* --------------------------------------------------- startup environment
\* offers of one seller for both coupon types and of the other for lunch,
\* payment identifiers, the operator's answers and cancellation, decision
\* timeouts, and restarts of the process
StartupConvs == 2
StartupFuts == 2
StartupTimers == 1

StartupNext ==
  \/ \E s \in Sellers, t \in CouponTypes :
       Offer(s, t, "SGR") /\ Within(StartupConvs, StartupFuts, StartupTimers)
  \/ \E s \in Sellers, msg \in FollowMsgs :
       SellerMessage(s, msg, FALSE)
         /\ Within(StartupConvs, StartupFuts, StartupTimers)
  \/ \E v \in BOOLEAN :
       AnswerPurchase(v, FALSE)
         /\ Within(StartupConvs, StartupFuts, StartupTimers)
  \/ \E v \in BOOLEAN :
       (IF v THEN AnswerPayment(FALSE) ELSE TerminalCancel(FALSE))
         /\ Within(StartupConvs, StartupFuts, StartupTimers)
  \/ \E i \in 1..MaxFuts :
       DecisionTimeout(i, FALSE)
         /\ Within(StartupConvs, StartupFuts, StartupTimers)
  \/ \E s \in Sellers :
       UserCancellation(s) /\ Within(StartupConvs, StartupFuts, StartupTimers)
  \/ \E S \in SUBSET Ids, R \in SUBSET Ids :
       Restart(S, R) /\ Within(StartupConvs, StartupFuts, StartupTimers)

SpecStartup == Init /\ [][StartupNext]_vars

\* C11: on startup resumption a conversation whose last activity is more
\* than 10 minutes ago and whose seller is not a test account becomes FAILED,
\* no message is sent to its seller and it does not become the active
\* conversation; a conversation within the 10 minutes, or of a test-account
\* seller, is resumed instead.
C11_StartupInactivity ==
  [][\A c \in 1..Len(convs) :
       LET test == convs[c].seller \in TestAccounts
           inactive == \E k \in 1..Len(out') :
                         out'[k] = <<"lastActivity", c, "stale", 0>>
           recent == \E k \in 1..Len(out') :
                       out'[k] = <<"lastActivity", c, "fresh", 0>>
           resumed == \E k \in 1..Len(out') : out'[k] = <<"resuming", c, "", 0>>
           messaged == \E k \in 1..Len(out') :
                         /\ out'[k][1] \in {"sendToSeller", "sendMessage"}
                         /\ out'[k][2] = c
       IN /\ (inactive /\ ~test)
               => /\ convs'[c].state = "FAILED"
                  /\ ~messaged
                  /\ cur' # c
                  /\ ~resumed
          /\ (recent \/ (inactive /\ test))
               => /\ resumed
                  /\ convs[c].seller \in active']_vars

\* one conversation has been failed for inactivity at a start, and at this
\* start the conversation of a test account, inactive for more than 10
\* minutes, has been resumed
C11_Witness ==
  \E c \in 1..Len(convs), d \in 1..Len(convs) :
    /\ convs[c].state = "FAILED"
    /\ convs[c].failureReason = "No response for 10+ minutes"
    /\ convs[d].seller \in TestAccounts
    /\ \E k \in 1..Len(out) : out[k] = <<"lastActivity", d, "stale", 0>>
    /\ \E k \in 1..Len(out) : out[k] = <<"resuming", d, "", 0>>
    /\ cur = d

\* C12: while a checkpoint future is pending other events are not delayed
\* until it resolves; in particular no persisted conversation is left
\* waiting for its resumption behind a pending future.
C12_ResumptionNotDelayed ==
  ~(/\ bootFut # 0
    /\ futs[bootFut].st = "pending"
    /\ boot # <<>>)

\* C13: whenever currentConversationId is non-null it is the id of a
\* conversation in the store whose state is neither COMPLETED nor FAILED.
C13_SlotHoldsOpenConversation ==
  cur # 0 => /\ cur \in 1..Len(convs)
             /\ convs[cur].state \notin Terminal

\* C16: every transition of a conversation into COMPLETED or FAILED
\* produces exactly one summary message to the operator: an operation sends
\* as many summaries (the "deal failed" or "deal cancelled" report, the
\* forwarded coupon, the notice of a manual completion) as it makes
\* conversations terminal.
C16_OneSummaryPerTerminalTransition ==
  [][Cardinality({c \in 1..Len(convs') :
                    /\ convs'[c].state \in Terminal
                    /\ c \in 1..Len(convs) => convs[c].state \notin Terminal})
       = Cardinality({k \in 1..Len(out') :
                        \/ /\ out'[k][1] = "sendToSelf"
                           /\ out'[k][3] \in {"summary", "dealCancelled",
                                               "manuallyCompleted"}
                        \/ out'[k][1] = "forward"})]_vars

\* ------------------------------------------------ send-failure environment
\* gated offers, text messages of the sellers, the operator's answers and
\* decision timeouts, each seller message and timeout also with a transport
\* that throws
LossyConvs == 2
LossyFuts == 2
LossyTimers == 1

LossyNext ==
  \/ \E s \in Sellers :
       GroupOffer(s, "lunch", "SGR")
         /\ Within(LossyConvs, LossyFuts, LossyTimers)
  \/ \E s \in Sellers, msg \in QuotesMsgs :
       SellerMessage(s, msg, FALSE) /\ Within(LossyConvs, LossyFuts, LossyTimers)
  \/ \E s \in Sellers, msg \in QuotesMsgs :
       SellerMessageSendFails(s, msg)
         /\ Within(LossyConvs, LossyFuts, LossyTimers)
  \/ \E v \in BOOLEAN :
       AnswerPurchase(v, FALSE) /\ Within(LossyConvs, LossyFuts, LossyTimers)
  \/ \E i \in 1..MaxFuts :
       DecisionTimeout(i, FALSE) /\ Within(LossyConvs, LossyFuts, LossyTimers)
  \/ \E i \in 1..MaxFuts :
       DecisionTimeoutSendFails(i)
         /\ Within(LossyConvs, LossyFuts, LossyTimers)

SpecLossy == Init /\ [][LossyNext]_vars

\* C17: if the send of the decline or withdrawal message that accompanies
\* a FAILED transition throws, the conversation still becomes FAILED and
\* does not hold the slot.
C17_FailedDespiteSendFailure ==
  [][\A c \in 1..Len(convs) :
       (\E k \in 1..Len(out') :
          /\ out'[k][1] = "sendFailed"
          /\ out'[k][2] = c
          /\ out'[k][3] \in {"decline", "notAvailable", "acceptCancellation",
                              "cancel"})
         => /\ convs'[c].state = "FAILED"
            /\ cur' # c]_vars

\* ------------------------------------------------ claims C21 to C30
\* C21: an offer of a seller who is no test account and has a FAILED
\* conversation created today returns null, creates no conversation and
\* sends nothing; a test account with such a conversation is not blocked: its
\* offer is refused only while a conversation with another seller is in
\* progress.
C21_FailedSellerBlockedToday ==
  [][\A s \in Sellers, t \in CouponTypes, m \in MessNames \cup {NoMess} :
       (/\ \E i \in 1..Len(convs) : /\ convs[i].seller = s
                                      /\ convs[i].state = "FAILED"
                                      /\ convs[i].today
        /\ Offer(s, t, m))
         => IF s \in TestAccounts
            THEN (\A a \in Sellers : a # s => ~InProgressWith(a))
                   => out'[1] = <<"return", 0, "conv", 0>>
            ELSE out' = Rejected /\ UNCHANGED state]_vars

\* the offer of a seller whose conversation failed today has just been
\* refused although no conversation is in progress and the seller has
\* completed none
C21_Witness ==
  /\ out = Rejected
  /\ cur = 0
  /\ \E i \in 1..Len(convs) : /\ convs[i].seller \notin TestAccounts
                                /\ convs[i].state = "FAILED"
                                /\ convs[i].today
  /\ \A i \in 1..Len(convs) : convs[i].state # "COMPLETED"

\* C22: a withdrawal signal of the seller above the threshold advances the
\* cancellation counter of the conversation (or, at 2, is accepted) in
\* AWAITING_MESS_INFO, AWAITING_PAYMENT_INFO, PAYMENT_PENDING and
\* AWAITING_COUPON.
C22_WithdrawalStartsSubProtocol ==
  [][\A s \in Sellers, msg \in QuotesMsgs :
       LET c == ConversationOf(Here, s)
       IN (/\ isCancelling(msg)
           /\ c # 0
           /\ convs[c].state \in {"AWAITING_MESS_INFO", "AWAITING_PAYMENT_INFO",
                                   "PAYMENT_PENDING", "AWAITING_COUPON"}
           /\ SellerMessage(s, msg, FALSE))
            => IF cancelSt[c] < 2 THEN cancelSt'[c] = cancelSt[c] + 1
               ELSE convs'[c].state \in {"FAILED", "AWAITING_REFUND"}]_vars

C24_AcceptanceForksOnPayment ==
  [][\A s \in Sellers, msg \in QuotesMsgs :
       LET c == ConversationOf(Here, s)
       IN (/\ isCancelling(msg)
           /\ ~msg.wait
           /\ c # 0
           /\ cancelSt[c] = 2
           /\ SellerMessage(s, msg, FALSE))
            => /\ convs[c].state = "AWAITING_PAYMENT_INFO"
                    => /\ convs'[c].state = "FAILED"
                       /\ convs'[c].failureReason = "Seller cancelled the deal"
                       /\ ~convs'[c].refundRequested
                       /\ cancelSt'[c] = 0
               /\ convs[c].state = "AWAITING_COUPON"
                    => /\ convs'[c].state = "AWAITING_REFUND"
                       /\ convs'[c].refundRequested
                       /\ \E k \in 1..Len(out') :
                            out'[k] = <<"sendToSelf", 0,
                                        "sellerCancelledAfterPayment", 0>>
                       /\ tally'[c].fail = tally[c].fail
                       /\ cancelSt'[c] = 0]_vars

\* one conversation has been failed for the seller's cancellation before the
\* payment and another has just asked for the refund after it
C24_Witness ==
  \E c \in 1..Len(convs), d \in 1..Len(convs) :
    /\ convs[c].state = "FAILED"
    /\ convs[c].failureReason = "Seller cancelled the deal"
    /\ convs[d].state = "AWAITING_REFUND"
    /\ convs[d].refundRequested
    /\ cancelSt[d] = 0
    /\ out # <<>>
    /\ out[1] = <<"sendToSeller", d, "refundRequest", 0>>

\* C25: when the cancellation counter of a conversation is 1 or 2 and the
\* seller's next message signals renewed agreement (agrees to the sale, the
\* coupon is available, or the seller has the coupon) and no withdrawal, the
\* counter is cleared and the step forces no state transition by itself.
C25_RenewedAgreementClearsCounter ==
  [][\A s \in Sellers, msg \in QuotesMsgs :
       LET c == ConversationOf(Here, s)
       IN (/\ ~isCancelling(msg)
           /\ \/ msg.an.agreesToSale = "T"
              \/ msg.an.available = "T"
              \/ msg.an.hasCoupon
           /\ c # 0
           /\ convs[c].state \in {"AWAITING_PAYMENT_INFO", "AWAITING_COUPON"}
           /\ cancelSt[c] > 0
           /\ SellerMessage(s, msg, FALSE))
            => cancelSt'[c] = 0]_vars

RefundConvs == 1
RefundFuts == 2
RefundTimers == 1

RefundNext ==
  \/ \E s \in Sellers :
       GroupOffer(s, "lunch", "SGR")
         /\ Within(RefundConvs, RefundFuts, RefundTimers)
  \/ \E s \in Sellers :
       \E msg \in {m \in Msgs : \/ m.an = PaymentInfo
                                \/ m.media # 0
                                \/ m.cancelN > 0 /\ m.an = Nothing
                                \/ m.refundN > 0
                                \/ m.simple} :
         SellerMessage(s, msg, FALSE)
           /\ Within(RefundConvs, RefundFuts, RefundTimers)
  \/ \E v \in BOOLEAN :
       AnswerPurchase(v, FALSE) /\ Within(RefundConvs, RefundFuts, RefundTimers)
  \/ AnswerPayment(FALSE) /\ Within(RefundConvs, RefundFuts, RefundTimers)
  \/ \E c \in Ids :
       FollowUpTick(c, FALSE) /\ Within(RefundConvs, RefundFuts, RefundTimers)

SpecRefund == Init /\ [][RefundNext]_vars

\* C27: an attachment received in AWAITING_REFUND_SCREENSHOT sets
\* refundReceived and refundScreenshotReceived, sends exactly one
\* refund-thanks message to the seller and moves the conversation to FAILED
\* with the slot released; refundReceived is never set on a conversation
\* whose refundRequested is not set.
C27_RefundScreenshotCloses ==
  [][/\ \A s \in Sellers, msg \in Msgs :
          LET c == ConversationOf(Here, s)
          IN (/\ msg.media # 0
              /\ c # 0
              /\ convs[c].state = "AWAITING_REFUND_SCREENSHOT"
              /\ SellerMessage(s, msg, FALSE))
               => /\ convs'[c].refundReceived
                  /\ convs'[c].refundScreenshotReceived
                  /\ Cardinality({k \in 1..Len(out') :
                        out'[k] = <<"sendToSeller", c, "refundThanks", 0>>}) = 1
                  /\ convs'[c].state = "FAILED"
                  /\ cur' = 0
     /\ \A c \in 1..Len(convs') :
          convs'[c].refundReceived => convs'[c].refundRequested]_vars

\* the refund of a cancelled, paid deal has been proven and the deal closed
C27_Witness ==
  \E c \in 1..Len(convs) :
    /\ convs[c].state = "FAILED"
    /\ convs[c].refundRequested
    /\ convs[c].refundReceived
    /\ convs[c].refundScreenshotReceived
    /\ cur = 0
    /\ \E k \in 1..Len(out) : out[k] = <<"sendToSeller", c, "refundThanks", 0>>

\* ----------------------------------------------- first-contact environment
\* offers for lunch with and without a mess name, each also with a transport
\* that throws at the first message, the sellers' mess names and payment
\* details, and the operator's answers
ContactConvs == 2
ContactFuts == 2
ContactTimers == 1

\* a sell message whose first outgoing message is not delivered
OfferSendFails(s, t, m) ==
  LET st1 == handleSellMessage([Here EXCEPT !.failAt = 1], s, t, m)
  IN st1.threw /\ Commit(st1)

ContactNext ==
  \/ \E s \in Sellers, m \in MessNames \cup {NoMess} :
       Offer(s, "lunch", m) /\ Within(ContactConvs, ContactFuts, ContactTimers)
  \/ \E s \in Sellers, m \in MessNames \cup {NoMess} :
       OfferSendFails(s, "lunch", m)
         /\ Within(ContactConvs, ContactFuts, ContactTimers)
  \/ \E s \in Sellers :
       \E msg \in {x \in Msgs : x.mess # NoMess \/ x.an = PaymentInfo} :
         SellerMessage(s, msg, FALSE)
           /\ Within(ContactConvs, ContactFuts, ContactTimers)
  \/ \E v \in BOOLEAN :
       AnswerPurchase(v, FALSE)
         /\ Within(ContactConvs, ContactFuts, ContactTimers)

SpecContact == Init /\ [][ContactNext]_vars

\* C28: with a non-empty preference list for the coupon type, a mess name
\* outside the list, found in the offer or in the seller's answer in
\* AWAITING_MESS_INFO, fails the conversation with a decline sent; a
\* conversation failed for the mismatch never becomes PAYMENT_PENDING, and
\* every conversation in PAYMENT_PENDING has a mess name that is known and
\* within the preferences.
C28_MessPreferenceChecked ==
  [][/\ \A s \in Sellers, t \in CouponTypes, m \in MessNames :
          (/\ MessPreference(t) # {}
           /\ m \notin MessPreference(t)
           /\ Offer(s, t, m)
           /\ Len(convs') = Len(convs) + 1)
            => /\ convs'[Len(convs')].state = "FAILED"
               /\ \E k \in 1..Len(out') :
                    out'[k] = <<"sendMessage", Len(convs'),
                                "messMismatchDecline", 0>>
     /\ \A s \in Sellers, msg \in Msgs :
          LET c == ConversationOf(Here, s)
          IN (/\ c # 0
              /\ convs[c].state = "AWAITING_MESS_INFO"
              /\ msg.mess # NoMess
              /\ MessPreference(convs[c].ctype) # {}
              /\ msg.mess \notin MessPreference(convs[c].ctype)
              /\ SellerMessage(s, msg, FALSE))
               => /\ convs'[c].state = "FAILED"
                  /\ out'[1] = <<"sendToSeller", c, "messMismatchDecline", 0>>
     /\ \A c \in 1..Len(convs) :
          convs[c].failureReason = "Mess mismatch"
            => convs'[c].state # "PAYMENT_PENDING"
     /\ \A c \in 1..Len(convs') :
          convs'[c].state = "PAYMENT_PENDING"
            => /\ convs'[c].mess # NoMess
               /\ MessPreference(convs'[c].ctype) # {}
                    => convs'[c].mess \in MessPreference(convs'[c].ctype)]_vars

\* C29: when a purchase-approval future resolves false (decline or decision
\* timeout) the withdrawal message is sent to the seller, the conversation
\* becomes FAILED, the slot is released and no payment-assertion future is
\* registered for the conversation; when a payment-assertion future resolves
\* false the conversation becomes FAILED as well, not AWAITING_COUPON.
C29_CheckpointResolvesFalse ==
  [][\A i \in 1..Len(futs) :
       (futs[i].st = "pending" /\ i <= Len(futs') /\ futs'[i].st = "false")
         => LET c == futs[i].conv
            IN /\ convs'[c].state = "FAILED"
               /\ cur' # c
               /\ futs[i].kind = "user"
                    => /\ \E k \in 1..Len(out') :
                            out'[k] = <<"sendToSeller", c, "cancel", 0>>
                       /\ \A j \in (Len(futs) + 1)..Len(futs') :
                            ~(futs'[j].conv = c /\ futs'[j].kind = "pay")]_vars

\* C30: completedAt is set by the first transition into a terminal state:
\* every conversation in COMPLETED or FAILED has completedAt set, and a
\* completedAt that is set stays set.
C30_TerminalHasCompletedAt ==
  [][\A c \in 1..Len(convs') :
       /\ convs'[c].state \in Terminal => convs'[c].completedAt
       /\ (c <= Len(convs) /\ convs[c].completedAt) => convs'[c].completedAt]_vars

\* ----------------------------------------------------- history environment
\* the message history of one conversation: every message of the bot and of
\* the seller is appended through addMessage
MaxHistory == 50
MaxArrivals == 53
MaxSellerTurns == 1

\* addMessage cutting the history one entry late
addMessageLate(msgs, e) ==
  LET pushed == Append(msgs, e)
  IN IF Len(pushed) > MaxHistory + 1
     THEN SubSeq(pushed, Len(pushed) - MaxHistory + 1, Len(pushed))
     ELSE pushed

\* addMessage: push, then keep the last 50 (slice(-50))
addMessage(msgs, e) ==
  LET pushed == Append(msgs, e)
  IN IF Len(pushed) > MaxHistory
     THEN SubSeq(pushed, Len(pushed) - MaxHistory + 1, Len(pushed))
     ELSE pushed

\* a message of the bot (sendToSeller) or of the seller (handleSellerMessage)
\* enters the history; n is its arrival number
AddMessage(sender, hasMedia) ==
  LET n == IF messages = <<>> THEN 1 ELSE messages[Len(messages)].n + 1
  IN /\ messages' = addMessage(messages,
                      [n |-> n, sender |-> sender, hasMedia |-> hasMedia])
     /\ UNCHANGED <<convs, cur, early, recv, cancelSt, chatImg, futs, userRes,
                    payRes, pendConf, pendPay, timers, inflight, active,
                    tally, happy, boot, bootFut, out, scanning,
                    processedMessageIds, detecting, seen>>

HistoryNext ==
  \/ /\ AddMessage("bot", FALSE)
     /\ messages'[Len(messages')].n <= MaxArrivals
  \/ \E hasMedia \in BOOLEAN :
       /\ AddMessage("seller", hasMedia)
       /\ messages'[Len(messages')].n <= MaxArrivals
       /\ Cardinality({i \in 1..Len(messages') :
                         messages'[i].sender = "seller"}) <= MaxSellerTurns

SpecHistory == Init /\ [][HistoryNext]_vars

C32_ResumeReissuesPrompt ==
  [][\A s \in Sellers, t \in CouponTypes, m \in MessNames \cup {NoMess} :
       LET c == findRecentConversation(Here, s, t)
       IN (/\ c # 0
           /\ convs[c].state \notin Terminal
           /\ Offer(s, t, m)
           /\ out' # <<>>
           /\ out'[1] = <<"return", 0, "conv", 0>>)
            => /\ cur' = c
               /\ (convs[c].state = "PAYMENT_PENDING" /\ convs[c].upi)
                    => /\ Len(futs') = Len(futs) + 1
                       /\ futs'[Len(futs')].conv = c
                       /\ futs'[Len(futs')].kind = "user"
               /\ (\/ convs[c].state \in {"INITIATING_CONTACT",
                                           "AWAITING_MESS_INFO",
                                           "AWAITING_PAYMENT_INFO"}
                   \/ convs[c].state = "PAYMENT_PENDING" /\ ~convs[c].upi)
                    => \E k \in 1..Len(out') :
                         out'[k][1] = "sendToSeller" /\ out'[k][2] = c]_vars

\* C33: the startup loop resumes at most one conversation into active
\* status: no run of resumeIncompleteConversations resumes two conversations
\* with different sellers that are both non-terminal afterwards.
C33_AtMostOneResumed ==
  [][\A c \in 1..Len(convs'), d \in 1..Len(convs') :
       (/\ \E k \in 1..Len(out') : out'[k] = <<"resuming", c, "", 0>>
        /\ \E k \in 1..Len(out') : out'[k] = <<"resuming", d, "", 0>>
        /\ convs'[c].state \notin Terminal
        /\ convs'[d].state \notin Terminal)
         => convs'[c].seller = convs'[d].seller]_vars

\* -------------------------------------------------------- scan environment
\* one conversation whose follow-up callback is suspended while it fetches
\* the seller's chat: the callback runs in two steps, and the seller's
\* messages and the operator's answers arrive in between
ScanConvs == 1
ScanFuts == 2
ScanTimers == 1

\* checkAndFollowUp up to its await of fetchChatMedia: the state tests, the
\* early image and the stored images are looked at before the callback
\* suspends
FollowUpBegin(c) ==
  /\ c \in 1..Len(convs)
  /\ timers[c] > 0
  /\ scanning[c] = 0
  /\ LET s0 == [Here EXCEPT !.timers[c] = @ - 1]
     IN Commit(Scenario(
          IF s0.convs[c].state # "AWAITING_COUPON" THEN s0
          ELSE IF s0.early[c] # 0
          THEN completeConversation([s0 EXCEPT !.early[c] = 0,
                                               !.cancelSt[c] = 0],
                                    c, s0.early[c])
          ELSE IF s0.recv[c] # 0
          THEN completeConversation([s0 EXCEPT !.cancelSt[c] = 0], c,
                                    s0.recv[c])
          ELSE [s0 EXCEPT !.scanning[c] = 1], 0, 0))

\* checkAndFollowUp after fetchChatMedia has returned: the image found, the
\* ceiling, or the next follow-up, without a second look at the state
FollowUpEnd(c, fetch) ==
  /\ c \in 1..Len(convs)
  /\ scanning[c] > 0
  /\ LET s0 == [Here EXCEPT !.scanning[c] = 0]
         existing == IF fetch THEN chatImg[c] ELSE 0
         n == convs[c].fu
     IN Commit(Scenario(
          IF existing # 0
          THEN completeConversation([s0 EXCEPT !.cancelSt[c] = 0], c, existing)
          ELSE IF n >= MAX_FOLLOW_UPS THEN handleCouponNotReceived(s0, c)
          ELSE [sendToSeller(s0, c, "couponFollowUp")
                  EXCEPT !.convs[c].fu = n + 1, !.timers[c] = @ + 1], 0, 0))

ScanNext ==
  \/ \E s \in Sellers :
       GroupOffer(s, "lunch", "SGR") /\ Within(ScanConvs, ScanFuts, ScanTimers)
  \/ \E s \in Sellers, msg \in SlotMsgs :
       SellerMessage(s, msg, FALSE) /\ Within(ScanConvs, ScanFuts, ScanTimers)
  \/ \E v \in BOOLEAN :
       AnswerPurchase(v, FALSE) /\ Within(ScanConvs, ScanFuts, ScanTimers)
  \/ AnswerPayment(FALSE) /\ Within(ScanConvs, ScanFuts, ScanTimers)
  \/ \E c \in Ids :
       FollowUpBegin(c) /\ Within(ScanConvs, ScanFuts, ScanTimers)
  \/ \E c \in Ids, fetch \in BOOLEAN :
       FollowUpEnd(c, fetch) /\ Within(ScanConvs, ScanFuts, ScanTimers)

SpecScan == Init /\ [][ScanNext]_vars

\* C34: a follow-up callback that resumes from its chat scan after the
\* conversation has left AWAITING_COUPON sends nothing, changes no
\* conversation, records nothing and schedules no further callback.
C34_StaleCallbackDoesNothing ==
  [][\A c \in Ids, fetch \in BOOLEAN :
       (/\ c <= Len(convs)
        /\ scanning[c] > 0
        /\ convs[c].state # "AWAITING_COUPON"
        /\ FollowUpEnd(c, fetch))
         => /\ out' = <<>>
            /\ convs' = convs
            /\ tally' = tally
            /\ timers' = timers]_vars

\* C35: for every conversation at most one outcome record has been written
\* (recordSuccessfulDeal or recordFailedDeal) and at most one sink has been
\* invoked (onCouponPurchased or onConversationFailed).
C35_OneOutcomeRecord ==
  \A c \in 1..Len(convs) :
    /\ tally[c].succ + tally[c].fail <= 1
    /\ tally[c].purch + tally[c].fsink <= 1

\* C36: the message that tells the seller the payment is made is sent, and
\* AWAITING_COUPON or the completion with a buffered image is entered by the
\* payment flow, only when a purchase-approval future and a payment-assertion
\* future of that conversation have resolved true; every payment-assertion
\* future follows a purchase-approval future of its conversation that
\* resolved true.
C36_PaidOnlyAfterBothCheckpoints ==
  [][/\ \A c \in 1..Len(convs') :
          (\/ \E k \in 1..Len(out') :
                \/ out'[k] = <<"sendToSeller", c, "couponRequest", 0>>
                \/ out'[k] = <<"sendToSeller", c, "paymentDoneThanks", 0>>
           \/ /\ c <= Len(convs)
              /\ convs[c].state # "AWAITING_COUPON"
              /\ convs'[c].state = "AWAITING_COUPON")
            => /\ \E i \in 1..Len(futs') :
                    /\ futs'[i].conv = c
                    /\ futs'[i].kind = "user"
                    /\ futs'[i].st = "true"
               /\ \E j \in 1..Len(futs') :
                    /\ futs'[j].conv = c
                    /\ futs'[j].kind = "pay"
                    /\ futs'[j].st = "true"
     /\ \A j \in 1..Len(futs') :
          futs'[j].kind = "pay"
            => \E i \in 1..(j - 1) :
                 /\ futs'[i].conv = futs'[j].conv
                 /\ futs'[i].kind = "user"
                 /\ futs'[i].st = "true"]_vars

\* the seller has just been told that the payment is made and is asked for
\* the coupon
C36_Witness ==
  \E c \in 1..Len(convs) :
    /\ convs[c].state = "AWAITING_COUPON"
    /\ out # <<>>
    /\ out[1] = <<"sendToSeller", c, "couponRequest", 0>>
    /\ \E j \in 1..Len(futs) :
         futs[j].conv = c /\ futs[j].kind = "pay" /\ futs[j].st = "true"

\* C37: an operation that finishes conversation x (COMPLETED or FAILED)
\* while currentConversationId refers to a different conversation leaves
\* currentConversationId as it is.
C37_SlotReleasedOnlyByHolder ==
  [][\A x \in 1..Len(convs) :
       (/\ cur # 0
        /\ cur # x
        /\ convs[x].state \notin Terminal
        /\ convs'[x].state \in Terminal
        /\ convs'[cur] = convs[cur])
         => cur' = cur]_vars

\* C38: when a conversation becomes COMPLETED or FAILED, no entry for it
\* remains in earlyCouponImages, receivedImagesPerConversation or
\* sellerCancelFollowUpState.
C38_TerminalLeavesNoEntries ==
  [][\A c \in 1..Len(convs') :
       (/\ c > Len(convs) \/ convs[c].state \notin Terminal
        /\ convs'[c].state \in Terminal)
         => /\ early'[c] = 0
            /\ recv'[c] = 0
            /\ cancelSt'[c] = 0]_vars

\* C39: a conversation in AWAITING_COUPON whose follow-up count is below the
\* ceiling has a follow-up callback pending (scheduled, or running its chat
\* scan), also when it was resumed in AWAITING_COUPON after a restart.
C39_FollowUpPending ==
  \A c \in 1..Len(convs) :
    (convs[c].state = "AWAITING_COUPON" /\ convs[c].fu < MAX_FOLLOW_UPS)
      => (timers[c] > 0 \/ scanning[c] > 0)

\* ----------------------------------------------------- monitor environment
\* group messages reach the monitor in real time and through the scan and
\* poll loops; sell detection is awaited, and its result starts a
\* conversation when the gate of the bot lets the offer through
MonitorConvs == 2
MonitorFuts == 1
MonitorTimers == 1

\* processMessage without the mark
processMessageUnmarked(st, id) ==
  [st EXCEPT !.detecting[id] = @ + 1, !.seen[id].detect = Inc(@)]

\* processMessage up to its first await: the id is marked as processed and
\* detectSellMessage is called
processMessage(st, id) ==
  [st EXCEPT !.processedMessageIds = @ \cup {id},
             !.detecting[id] = @ + 1,
             !.seen[id].detect = Inc(@)]

\* handleMessage, from its test of processedMessageIds on
HandleMessage(id) ==
  Commit(IF id \in processedMessageIds
         THEN [Here EXCEPT !.seen[id].skip = Inc(@)]
         ELSE processMessage(Here, id))

\* one message of the list fetched by scanExistingMessages or
\* pollLatestMessages
LoopVisit(id) ==
  Commit(IF id \in processedMessageIds
         THEN [Here EXCEPT !.seen[id].skip = Inc(@)]
         ELSE processMessage(Here, id))

\* detectSellMessage returns to a suspended processMessage; a sell message
\* for a coupon that can be processed is handed to onSellMessage
DetectionReturns(id, selling) ==
  /\ detecting[id] > 0
  /\ LET s == IF id = 2 THEN "s2" ELSE "s1"
         s0 == [Here EXCEPT !.detecting[id] = @ - 1]
     IN Commit(IF selling /\ canBuyCoupon("lunch") /\ cur = 0
               THEN handleSellMessage([s0 EXCEPT !.seen[id].sell = Inc(@)],
                                      s, "lunch", "SGR")
               ELSE s0)

MonitorNext ==
  \/ \E id \in MsgIds :
       HandleMessage(id) /\ Within(MonitorConvs, MonitorFuts, MonitorTimers)
  \/ \E id \in MsgIds :
       LoopVisit(id) /\ Within(MonitorConvs, MonitorFuts, MonitorTimers)
  \/ \E id \in MsgIds, selling \in BOOLEAN :
       DetectionReturns(id, selling)
         /\ Within(MonitorConvs, MonitorFuts, MonitorTimers)
  \/ \E id \in 1..MaxConvs :
       ManualFail(id) /\ Within(MonitorConvs, MonitorFuts, MonitorTimers)

SpecMonitor == Init /\ [][MonitorNext]_vars

\* C40: for every group message id sell detection has been started at most
\* once and onSellMessage has been called at most once, whatever the order
\* of the real-time handler, the scan and the poll.
C40_ProcessedAtMostOnce ==
  \A id \in MsgIds : seen[id].detect <= 1 /\ seen[id].sell <= 1

\* a message that was handed to onSellMessage and was met again, and skipped,
\* by another path
C40_Witness ==
  \E id \in MsgIds :
    /\ seen[id].sell = 1
    /\ seen[id].skip > 0
    /\ id \in processedMessageIds

====
